---- MODULE Spec2Model ----
(***************************************************************************)
(* Retrieval-to-report pipeline of src/future2/test_analysis5.py:          *)
(* count_tokens, calculate_chunk_size, _create_context_aware_chunks and    *)
(* analyze_trend, with the collaborators (LLM client, text processor,      *)
(* vector store) as nondeterministic environments.                         *)
(*                                                                         *)
(* Token amounts are Python numbers: ints from the encoder, floats from    *)
(* the word-count fallback (words * 1.3) and for the budget                *)
(* max_context_size * 0.8; the float operations round as binary64 does.    *)
(***************************************************************************)
EXTENDS Integers, Sequences, FiniteSets, Bags, TLC

\* ----------------------------------------------------------------- bounds
MaxDocs == 3
MaxWords == 2
MaxCtx == 4
MaxChats == 1
MaxTasks == 2
MaxMessageChunks == 2

\* -------------------------------------------------------------- documents
\* A text is known by what the two estimators see of it: the number of
\* whitespace-separated words (text.split()), whether encoding.encode(text)
\* accepts it (it raises on a text that holds a special token such as
\* '<|endoftext|>') and the number of encoder tokens. The texts enumerated
\* here carry one token per word; a text the encoder refuses has a word.
Texts == {t \in [words : 0..MaxWords, tokens : 0..MaxWords, encodable : BOOLEAN] :
             /\ t.tokens = t.words
             /\ ~t.encodable => t.words >= 1}

\* A material as returned by search_vectors: url is the unique key.
Materials == [url : 1..MaxDocs, text : Texts]

\* Lists of materials of length 0..MaxDocs, the k-th one with url k.
MaterialLists ==
    UNION {{[k \in 1..n |-> [url |-> k, text |-> texts[k]]] : texts \in [1..n -> Texts]} :
              n \in 0..MaxDocs}

\* What search_vectors returns in the pipeline runs: lists of materials whose
\* texts are short (one word, one token, accepted by the encoder).
SearchTexts == {t \in Texts : t.encodable /\ t.words = 1}
SearchResults == {ms \in MaterialLists : \A k \in 1..Len(ms) : ms[k].text \in SearchTexts}

Tokenizers == {"encoder", "fallback"}

VARIABLES
    pc,                   \* position of the running call
    tokenizer,            \* whether tiktoken.encoding_for_model works in this process
    theme,                \* theme extracted from the user query
    relevant_materials,   \* materials handed to the planner / returned by search
    max_context_size,     \* llm_client.get_max_context_size()
    chunks,               \* chunks of the multi-chunk path
    i,                    \* index (from 1) of the chunk the for loop is at
    filtered,             \* filtered materials of the chunk being analysed
    chunk_analyses_texts, \* intermediate analyses collected so far
    calls,                \* collaborator calls made so far, in order
    result,               \* value returned by analyze_trend
    plan,                 \* outcome of a direct _create_context_aware_chunks call
    corpus,               \* number of materials the vector store can return
    parked,               \* locals of a second analyze_trend call that is not running
    proc,                 \* the bot process: "off" or "polling"
    entry,                \* the entry point that launched it
    scheduler_running,    \* scheduler.running
    jobs,                 \* the scheduler's jobs: job id -> args of the jobs with that id
    subscriptions,        \* db.subscriptions: user id -> document
    fsm,                  \* FSM storage: chat -> dialog state
    tasks,                \* the handlers and jobs suspended in an await
    last_op               \* what the last bot operation did and returned

analysis_vars == <<pc, tokenizer, theme, relevant_materials, max_context_size, chunks, i,
                   filtered, chunk_analyses_texts, calls, result, plan>>

bot_vars == <<proc, entry, scheduler_running, jobs, subscriptions, fsm, tasks, last_op>>

\* What no step of analyze_trend or of the planner touches.
outside_vars == <<corpus, parked, bot_vars>>

vars == <<analysis_vars, outside_vars>>

pipeline_vars == <<theme, chunks, i, filtered, chunk_analyses_texts, calls, result>>

\* ---------------------------------------------------------------- numbers
\* The numbers of the planner are Python ints and floats (IEEE 754 binary64,
\* round to nearest, ties to even). A number is kept as a fixed-point
\* integer, value * 2^FractionBits, written in NumLimbs limbs of LimbBits
\* bits, least significant limb first. Within the range of the model (0 and
\* the values from 2^-7 up to 2^31, ints below 2^11 as divisors) every float
\* is such an integer; a float operation is the exact operation followed by
\* Round, which keeps 53 significant bits. An int is exact (Round leaves it
\* as it is). The one float that can be smaller, avg_tokens of a list that
\* is longer than its total, is kept times a power of two (Over).
LimbBits == 20
NumLimbs == 5
FractionLimbs == 3
Precision == 53
Base == 2^LimbBits
FractionBits == FractionLimbs * LimbBits
Limbs == 1..NumLimbs

\* The limbs of a number as a tuple, which is computed once.
Number(x) == SubSeq(x, 1, NumLimbs)

Zero == Number([k \in Limbs |-> 0])

\* An int n >= 0.
FromInt(n) ==
    Number([k \in Limbs |-> IF k = FractionLimbs + 1 THEN n % Base
                     ELSE IF k = FractionLimbs + 2 THEN n \div Base
                     ELSE 0])

\* int(x) of a number x >= 0: the integer part.
Trunc(x) == x[FractionLimbs + 1] + Base * x[FractionLimbs + 2]

\* The carry out of limb k of x + y.
RECURSIVE Carry(_, _, _)
Carry(x, y, k) == IF k = 0 THEN 0 ELSE (x[k] + y[k] + Carry(x, y, k - 1)) \div Base

\* x + y, exactly
Add(x, y) == Number([k \in Limbs |-> (x[k] + y[k] + Carry(x, y, k - 1)) % Base])

\* The carry out of limb k of x * n.
RECURSIVE CarryTimes(_, _, _)
CarryTimes(x, n, k) == IF k = 0 THEN 0 ELSE (x[k] * n + CarryTimes(x, n, k - 1)) \div Base

\* floor(x / 2^s)
ShiftRight(x, s) ==
    LET q == s \div LimbBits
        r == s % LimbBits
        Limb(k) == IF k > NumLimbs THEN 0 ELSE x[k]
    IN  Number([k \in Limbs |-> Limb(k + q) \div 2^r + (Limb(k + q + 1) % 2^r) * 2^(LimbBits - r)])

\* x * 2^s, exactly
ShiftLeft(x, s) ==
    LET q == s \div LimbBits
        r == s % LimbBits
        Limb(k) == IF k < 1 THEN 0 ELSE x[k]
    IN  Number([k \in Limbs |-> (Limb(k - q) % 2^(LimbBits - r)) * 2^r
                                + Limb(k - q - 1) \div 2^(LimbBits - r)])

\* x * n, exactly, for an int 0 <= n < 2^11
Times(x, n) == Number([k \in Limbs |-> (x[k] * n + CarryTimes(x, n, k - 1)) % Base])

\* x * n, exactly, for an int 0 <= n < 2^22: by the low 11 bits of n and
\* the rest.
TimesWide(x, n) ==
    IF n < 2^11 THEN Times(x, n)
    ELSE Add(Times(x, n % 2^11), ShiftLeft(Times(x, n \div 2^11), 11))

\* What is left of the limbs above limb k when x is divided by n.
RECURSIVE Remainder(_, _, _)
Remainder(x, n, k) ==
    IF k > NumLimbs THEN 0 ELSE (Remainder(x, n, k + 1) * Base + x[k]) % n

\* floor(x / n) in fixed point, for an int 0 < n < 2^11
DividedBy(x, n) == Number([k \in Limbs |-> (Remainder(x, n, k + 1) * Base + x[k]) \div n])

RECURSIVE Compare(_, _, _)
Compare(x, y, k) ==
    IF k = 0 THEN 0
    ELSE IF x[k] > y[k] THEN 1
    ELSE IF x[k] < y[k] THEN -1
    ELSE Compare(x, y, k - 1)

Leq(x, y) == Compare(x, y, NumLimbs) <= 0
Gt(x, y) == Compare(x, y, NumLimbs) > 0

\* The number of significant bits of x.
RECURSIVE TopLimb(_, _)
TopLimb(x, k) == IF k = 0 THEN 0 ELSE IF x[k] # 0 THEN k ELSE TopLimb(x, k - 1)

BitLength(x) ==
    LET top == TopLimb(x, NumLimbs)
    IN  IF top = 0 THEN 0
        ELSE (top - 1) * LimbBits
                 + (CHOOSE b \in 1..LimbBits : x[top] < 2^b /\ x[top] >= 2^(b - 1))

\* 2^s as a fixed-point integer (bit s set)
Bit(s) == Number([k \in Limbs |-> IF k = s \div LimbBits + 1 THEN 2^(s % LimbBits) ELSE 0])

\* x without its d lowest bits / the d lowest bits of x
ClearLow(x, d) ==
    Number([k \in Limbs |-> IF k * LimbBits <= d THEN 0
                     ELSE IF (k - 1) * LimbBits >= d THEN x[k]
                     ELSE x[k] - (x[k] % (2^(d - (k - 1) * LimbBits)))])

Low(x, d) ==
    Number([k \in Limbs |-> IF k * LimbBits <= d THEN x[k]
                     ELSE IF (k - 1) * LimbBits >= d THEN 0
                     ELSE x[k] % (2^(d - (k - 1) * LimbBits))])

\* The float nearest to the exact value x (plus something below its last
\* bit when inexact): round to nearest, ties to even.
Round(x, inexact) ==
    LET d == BitLength(x) - Precision
        up == ClearLow(Add(x, Bit(d - 1)), d)
        tie == ~inexact /\ Low(x, d) = Bit(d - 1)
    IN  IF d <= 0 THEN x
        ELSE IF tie THEN ClearLow(up, d + 1)
        ELSE up

\* float + float, int + float (and int + int, which is exact)
Plus(x, y) == Round(Add(x, y), FALSE)

\* int * float
Product(n, x) == Round(Times(x, n), FALSE)

\* number / int n, 0 < n < 2^11: true division. The quotient can be below
\* 2^-7, so it is a record of a number and a scale: the float is
\* scaled / 2^scale. The scale is 0 when the quotient is at least 1 and
\* otherwise large enough for scaled to be at least 1; a power of two
\* changes no rounding.
Over(x, n) ==
    LET scale == IF Leq(FromInt(n), x) THEN 0 ELSE BitLength(FromInt(n)) - FractionBits + 7
        y == ShiftLeft(x, scale)
    IN  [scaled |-> Round(DividedBy(y, n), Remainder(y, n, 1) # 0), scale |-> scale]

\* The quotient as a number, when it is 0 or at least 2^-7.
Unscaled(quotient) == ShiftRight(quotient.scaled, quotient.scale)

\* The float literals 1.3 and 0.8: the floats nearest to 13/10 and 8/10.
WordWeight == Unscaled(Over(FromInt(13), 10))
BudgetShare == Unscaled(Over(FromInt(8), 10))

\* The float a / x >= n, for ints a, n >= 1 and a float x > 0 given as a
\* quotient of Over: the exact quotient is not below n less half the gap between n
\* and the float before it (on the tie the quotient rounds to n, whose last
\* bit is 0). With b = the bit length of n - 1 that gap is
\* 2^(b - Precision), and the test is n * x - a <= x / 2^(Precision + 1 - b),
\* made on the fixed-point integers with both sides times 2^scale (the
\* left-hand side is one, so the right-hand side is floored).
QuotientReaches(a, x, n) ==
    LET b == BitLength(FromInt(n - 1)) - FractionBits
        s == Precision + 1 - (IF b > 0 THEN b ELSE 0)
    IN  Leq(TimesWide(x.scaled, n),
            Add(ShiftLeft(FromInt(a), x.scale), ShiftRight(x.scaled, s)))

\* int(a / x): the largest n the float a / x reaches, found by bisection of
\* lo..hi (the quotient reaches lo and does not reach hi + 1).
RECURSIVE Bisect(_, _, _, _)
Bisect(a, x, lo, hi) ==
    IF lo = hi THEN lo
    ELSE LET mid == (lo + hi + 1) \div 2
         IN  IF QuotientReaches(a, x, mid) THEN Bisect(a, x, mid, hi)
             ELSE Bisect(a, x, lo, mid - 1)

\* ----------------------------------------------------------- count_tokens
\* len(encoding.encode(text)), an int, or len(text.split()) * 1.3, a float,
\* when encoding_for_model or encode raises: decided anew in every call.
\* Mutant of count_tokens: no estimate is substituted when the encoder raises.
count_tokensNoFallback(tk, text) ==
    IF tk = "encoder" /\ text.encodable THEN FromInt(text.tokens) ELSE Zero

count_tokens(tk, text) ==
    IF tk = "encoder" /\ text.encodable THEN FromInt(text.tokens)
    ELSE Product(text.words, WordWeight)

\* sum(count_tokens(m['text']) for m in ms): from 0, left to right
RECURSIVE SumFrom(_, _, _)
SumFrom(tk, ms, total) ==
    IF ms = <<>> THEN total
    ELSE SumFrom(tk, Tail(ms), Plus(total, count_tokens(tk, Head(ms).text)))

SumTokens(tk, ms) == SumFrom(tk, ms, Zero)

\* max_context_size * 0.8
Budget(mcs) == Product(mcs, BudgetShare)

Max(a, b) == IF a >= b THEN a ELSE b

\* --------------------------------------------------- calculate_chunk_size
\* available_tokens = int(max_context_size * 0.8)
\* avg_tokens = total_tokens / len(materials)      (ZeroDivisionError on [])
\* max(1, int(available_tokens / avg_tokens))      (ZeroDivisionError on 0)
\* Result: 0 stands for the ZeroDivisionError, otherwise the size (>= 1).
\* A total that is not 0 is at least 1, so the quotient is below
\* available_tokens * len(materials) / int(total_tokens) + 1.
ZeroDivision == 0

calculate_chunk_size(tk, ms, mcs) ==
    LET available_tokens == Trunc(Budget(mcs))
        total_tokens == SumTokens(tk, ms)
        avg_tokens == Over(total_tokens, Len(ms))
        most == (available_tokens * Len(ms)) \div Trunc(total_tokens) + 1
    IN  IF Len(ms) = 0 THEN ZeroDivision
        ELSE IF total_tokens = Zero THEN ZeroDivision
        ELSE Max(1, Bisect(available_tokens, avg_tokens, 0, most))

\* ------------------------------------------- _create_context_aware_chunks
\* Mutant of PlanStep: the budget test looks at the material alone and
\* forgets the size of the current chunk.
PlanStepForgetsSize(tk, st, material, mcs, chunk_size) ==
    LET tokens == count_tokens(tk, material.text)
        over == Gt(tokens, Budget(mcs))
        chunks1 == IF over /\ st.current_chunk # <<>>
                   THEN Append(st.chunks, st.current_chunk) ELSE st.chunks
        chunk1 == IF over THEN <<material>> ELSE Append(st.current_chunk, material)
        size1 == IF over THEN tokens ELSE Plus(st.current_size, tokens)
    IN  IF Len(chunk1) >= chunk_size
        THEN [chunks |-> Append(chunks1, chunk1), current_chunk |-> <<>>, current_size |-> Zero]
        ELSE [chunks |-> chunks1, current_chunk |-> chunk1, current_size |-> size1]

\* Mutant of PlanStep: the chunk is closed one material short of chunk_size.
PlanStepClosesEarly(tk, st, material, mcs, chunk_size) ==
    LET tokens == count_tokens(tk, material.text)
        over == Gt(Plus(st.current_size, tokens), Budget(mcs))
        chunks1 == IF over /\ st.current_chunk # <<>>
                   THEN Append(st.chunks, st.current_chunk) ELSE st.chunks
        chunk1 == IF over THEN <<material>> ELSE Append(st.current_chunk, material)
        size1 == IF over THEN tokens ELSE Plus(st.current_size, tokens)
    IN  IF Len(chunk1) + 1 >= chunk_size
        THEN [chunks |-> Append(chunks1, chunk1), current_chunk |-> <<>>, current_size |-> Zero]
        ELSE [chunks |-> chunks1, current_chunk |-> chunk1, current_size |-> size1]

\* One iteration of the for loop over a material.
PlanStep(tk, st, material, mcs, chunk_size) ==
    LET tokens == count_tokens(tk, material.text)
        over == Gt(Plus(st.current_size, tokens), Budget(mcs))
        chunks1 == IF over /\ st.current_chunk # <<>>
                   THEN Append(st.chunks, st.current_chunk) ELSE st.chunks
        chunk1 == IF over THEN <<material>> ELSE Append(st.current_chunk, material)
        size1 == IF over THEN tokens ELSE Plus(st.current_size, tokens)
    IN  IF Len(chunk1) >= chunk_size
        THEN [chunks |-> Append(chunks1, chunk1), current_chunk |-> <<>>, current_size |-> Zero]
        ELSE [chunks |-> chunks1, current_chunk |-> chunk1, current_size |-> size1]

RECURSIVE PlanLoop(_, _, _, _, _)
PlanLoop(tk, st, ms, mcs, chunk_size) ==
    IF ms = <<>> THEN st
    ELSE PlanLoop(tk, PlanStep(tk, st, Head(ms), mcs, chunk_size), Tail(ms), mcs, chunk_size)

\* The whole function: raised is TRUE when calculate_chunk_size raised
\* ZeroDivisionError, and then there are no chunks.
_create_context_aware_chunks(tk, ms, mcs) ==
    LET chunk_size == calculate_chunk_size(tk, ms, mcs)
        st == PlanLoop(tk, [chunks |-> <<>>, current_chunk |-> <<>>, current_size |-> Zero],
                       ms, mcs, chunk_size)
    IN  IF chunk_size = ZeroDivision
        THEN [raised |-> TRUE, chunk_size |-> ZeroDivision, chunks |-> <<>>]
        ELSE [raised |-> FALSE, chunk_size |-> chunk_size,
              chunks |-> IF st.current_chunk # <<>>
                         THEN Append(st.chunks, st.current_chunk) ELSE st.chunks]

NotCalled == [raised |-> FALSE, chunk_size |-> ZeroDivision, chunks |-> <<>>]

\* --------------------------------------------------------- initial values
NoTheme == "unset"
NoResult == [status |-> "none", message |-> "none", report |-> 0]

\* ------------------------------------------------- values of collaborators
\* A value found under the 'analysis' key of a completion result, by what
\* json.loads and str methods see of it: its type, the kind of text it
\* holds and, for a JSON list, the items of the list (urls; 0 is an item
\* that is no retrieved material).
NoneValue == [type |-> "none", text |-> "none", items |-> <<>>]
Str(text, items) == [type |-> "str", text |-> text, items |-> items]
EmptyStr == Str("empty", <<>>)

\* A completion call either raises or returns a dict, with or without the
\* 'analysis' key.
Raises == [raises |-> TRUE, has_analysis |-> FALSE, analysis |-> NoneValue]
WithoutAnalysis == [raises |-> FALSE, has_analysis |-> FALSE, analysis |-> NoneValue]
WithAnalysis(v) == [raises |-> FALSE, has_analysis |-> TRUE, analysis |-> v]
NoResponse == [raises |-> FALSE, has_analysis |-> FALSE, analysis |-> Str("unused", <<>>)]
\* create_embeddings returned an empty list of vectors.
NoVectors == [raises |-> FALSE, has_analysis |-> FALSE, analysis |-> Str("no_vectors", <<>>)]

\* dict.get('analysis', '')
get_analysis(resp) == IF resp.has_analysis THEN resp.analysis ELSE EmptyStr

UrlsOf(ms) == [k \in 1..Len(ms) |-> ms[k].url]

\* Non-empty lists a filter completion may answer for a chunk: its first
\* material, all its materials, or an item that is no retrieved material.
FilterLists(chunk) ==
    {UrlsOf(chunk), <<0>>} \cup (IF chunk = <<>> THEN {} ELSE {<<chunk[1].url>>})

FilterResponses(chunk) ==
    {Raises, WithoutAnalysis}
    \cup {WithAnalysis(v) : v \in {NoneValue, Str("prose", <<>>), Str("json_object", <<>>),
                                   Str("json_list", <<>>)}}
    \cup {WithAnalysis(Str("json_list", l)) : l \in FilterLists(chunk)}

ThemeResponses ==
    {Raises, WithoutAnalysis, WithAnalysis(NoneValue), WithAnalysis(Str("prose", <<>>))}

AnalysisResponses ==
    {Raises, WithoutAnalysis, WithAnalysis(NoneValue), WithAnalysis(Str("prose", <<>>))}

\* The narrative a completion call produced, named by the call.
Narrative(by, chunk) == [by |-> by, chunk |-> chunk]
NoNarrative == Narrative("none", 0)

\* .get('analysis', '') of an analysis or synthesis completion: the
\* narrative, the default '' when the key is missing, or the value None.
EmptyText(chunk) == Narrative("empty string", chunk)
NoneText(chunk) == Narrative("None", chunk)
Analysis(by, chunk, resp) ==
    LET v == get_analysis(resp)
    IN  IF v.type = "none" THEN NoneText(chunk)
        ELSE IF v.text = "empty" THEN EmptyText(chunk)
        ELSE Narrative(by, chunk)

\* separator.join(chunk_analyses_texts) raises TypeError on an item that is
\* no str.
Joinable(texts) == \A k \in 1..Len(texts) : texts[k].by # "None"

\* -------------------------------------------------------------- json.loads
\* TypeError for a value that is no str, JSONDecodeError for text that is
\* not JSON (the empty string included), otherwise the parsed value.
json_loads(v) ==
    IF v.type # "str" THEN [exc |-> "TypeError", is_list |-> FALSE, value |-> <<>>]
    ELSE IF v.text \in {"empty", "prose"}
         THEN [exc |-> "JSONDecodeError", is_list |-> FALSE, value |-> <<>>]
    ELSE [exc |-> "none", is_list |-> v.text = "json_list", value |-> v.items]

\* try: json.loads; not a list -> []; except json.JSONDecodeError -> [].
\* Any other exception leaves the try statement.
ParseFiltered(v) ==
    LET parsed == json_loads(v)
    IN  IF parsed.exc = "JSONDecodeError" THEN [exc |-> "none", materials |-> <<>>]
        ELSE IF parsed.exc # "none" THEN [exc |-> parsed.exc, materials |-> <<>>]
        ELSE IF ~parsed.is_list THEN [exc |-> "none", materials |-> <<>>]
        ELSE [exc |-> "none", materials |-> parsed.value]

\* ----------------------------------------------------------------- results
MsgNoMaterials == "no relevant materials"
MsgNoMaterialsAfterFiltering == "no relevant materials after filtering"
MsgNoAnalysis == "no analysis obtained from the materials"
ExceptionMessages ==
    {"collaborator error", "TypeError", "AttributeError", "IndexError", "ZeroDivisionError"}

ErrorResult(message) == [status |-> "error", message |-> message, report |-> NoNarrative]
OkResult(report) == [status |-> "ok", message |-> "none", report |-> report]

\* What the text handed to a collaborator embeds: the extracted theme (or
\* "absent"), the user query, {text, url} pairs of retrieved materials (by
\* url) and items of the filtered list. The f-strings of analyze_trend:
\*   theme_prompt                 user_query
\*   create_embeddings([theme])   theme
\*   filter prompts               theme, user_query  (no material at all)
\*   analysis_prompt (fast path)  theme, user_query, filtered_materials
\*   chunk_analysis_prompt        theme, filtered_chunk_materials
\*   final_prompt                 theme, user_query, the joined analyses
\* (user_query is also the second argument of every analyze_text call.)
PromptParts(th, query, materials, items) ==
    [theme |-> th, query |-> query, materials |-> materials, filtered |-> items]
NoPrompt == PromptParts("absent", FALSE, <<>>, <<>>)

\* Mutant of Prompt: the analysis prompts embed the raw materials of the
\* chunk next to the filtered ones.
PromptWithRawChunk(op, chunk) ==
    CASE op = "theme" -> PromptParts("absent", TRUE, <<>>, <<>>)
      [] op = "embed" -> PromptParts(theme, FALSE, <<>>, <<>>)
      [] op = "filter" -> PromptParts(theme, TRUE, <<>>, <<>>)
      [] op = "analysis" /\ chunk = 0 ->
            PromptParts(theme, TRUE, UrlsOf(relevant_materials), filtered)
      [] op = "analysis" /\ chunk # 0 ->
            PromptParts(theme, FALSE, UrlsOf(chunks[chunk]), filtered)
      [] op = "synthesis" -> PromptParts(theme, TRUE, <<>>, <<>>)
      [] OTHER -> NoPrompt

Prompt(op, chunk) ==
    CASE op = "theme" -> PromptParts("absent", TRUE, <<>>, <<>>)
      [] op = "embed" -> PromptParts(theme, FALSE, <<>>, <<>>)
      [] op = "filter" -> PromptParts(theme, TRUE, <<>>, <<>>)
      [] op = "analysis" /\ chunk = 0 -> PromptParts(theme, TRUE, <<>>, filtered)
      [] op = "analysis" /\ chunk # 0 -> PromptParts(theme, FALSE, <<>>, filtered)
      [] op = "synthesis" -> PromptParts(theme, TRUE, <<>>, <<>>)
      [] OTHER -> NoPrompt

\* A collaborator call as a test double records it.
Call(op, chunk, response, analyses) ==
    [op |-> op, chunk |-> chunk, response |-> response, analyses |-> analyses,
     prompt |-> Prompt(op, chunk)]

\* return {...}: the call is over.
Return(r) == pc' = "done" /\ result' = r

\* ------------------------------------------------- the bot, before launch
\* Chats that talk to the bot; str(chat.id) is the user id of a subscription.
Chats == 1..MaxChats

\* The categories vector_store.get_categories() offers.
Categories == {"Games"}

\* No document of db.subscriptions for a user.
NoDocument == [exists |-> FALSE, enabled |-> FALSE, category |-> "None"]

\* FSMContext without a state (state.clear()).
NoState == "None"

NoOperation == [op |-> "none"]

\* The process is not running, the database is empty, nothing is scheduled.
BotIdle ==
    /\ proc = "off"
    /\ entry = "none"
    /\ scheduler_running = FALSE
    /\ jobs = [c \in Chats |-> <<>>]
    /\ subscriptions = [c \in Chats |-> NoDocument]
    /\ fsm = [c \in Chats |-> NoState]
    /\ tasks = EmptyBag
    /\ last_op = NoOperation

\* The locals of an analyze_trend call that has not made its first step.
FreshRequest ==
    [pc |-> "construct", theme |-> NoTheme, relevant_materials |-> <<>>,
     max_context_size |-> 0, chunks |-> <<>>, i |-> 0, filtered |-> <<>>,
     chunk_analyses_texts |-> <<>>, calls |-> <<>>, result |-> NoResult]

\* ------------------------------------------------------------ analyze_trend
PipelineInit ==
    /\ pc = "construct"
    /\ tokenizer \in Tokenizers
    /\ theme = NoTheme
    /\ relevant_materials = <<>>
    /\ max_context_size = 0
    /\ chunks = <<>>
    /\ i = 0
    /\ filtered = <<>>
    /\ chunk_analyses_texts = <<>>
    /\ calls = <<>>
    /\ result = NoResult
    /\ plan = NotCalled
    /\ corpus = MaxDocs
    /\ parked = FreshRequest
    /\ BotIdle

\* Mutant of Construct: the clients are built outside the try statement, so
\* their exception leaves analyze_trend.
ConstructOutsideTry ==
    /\ pc = "construct"
    /\ \E raises \in BOOLEAN :
        /\ calls' = Append(calls, Call("construct", 0, IF raises THEN Raises ELSE NoResponse, <<>>))
        /\ IF raises THEN pc' = "raised" /\ UNCHANGED result
           ELSE pc' = "theme" /\ UNCHANGED result
    /\ UNCHANGED <<tokenizer, theme, relevant_materials, max_context_size, chunks, i,
                   filtered, chunk_analyses_texts, plan>>
    /\ UNCHANGED outside_vars

\* get_llm_client(), VectorStore(...), TextProcessor(...)
Construct ==
    /\ pc = "construct"
    /\ \E raises \in BOOLEAN :
        /\ calls' = Append(calls, Call("construct", 0, IF raises THEN Raises ELSE NoResponse, <<>>))
        /\ IF raises THEN Return(ErrorResult("collaborator error"))
           ELSE pc' = "theme" /\ UNCHANGED result
    /\ UNCHANGED <<tokenizer, theme, relevant_materials, max_context_size, chunks, i,
                   filtered, chunk_analyses_texts, plan>>
    /\ UNCHANGED outside_vars

\* theme = llm_client.analyze_text(theme_prompt, user_query).get('analysis', '').strip()
ExtractTheme ==
    /\ pc = "theme"
    /\ \E resp \in ThemeResponses :
        /\ calls' = Append(calls, Call("theme", 0, resp, <<>>))
        /\ IF resp.raises
           THEN Return(ErrorResult("collaborator error")) /\ UNCHANGED theme
           ELSE IF get_analysis(resp).type # "str"
           THEN Return(ErrorResult("AttributeError")) /\ UNCHANGED theme
           ELSE pc' = "embed" /\ theme' = get_analysis(resp).text /\ UNCHANGED result
    /\ UNCHANGED <<tokenizer, relevant_materials, max_context_size, chunks, i,
                   filtered, chunk_analyses_texts, plan>>
    /\ UNCHANGED outside_vars

\* search_embedding = text_processor.create_embeddings([theme])[0]
Embed ==
    /\ pc = "embed"
    /\ \E outcome \in {"raises", "empty", "vectors"} :
        /\ calls' = Append(calls, Call("embed", 0,
                CASE outcome = "raises" -> Raises
                  [] outcome = "empty" -> NoVectors
                  [] OTHER -> NoResponse, <<>>))
        /\ CASE outcome = "raises" -> Return(ErrorResult("collaborator error"))
             [] outcome = "empty" -> Return(ErrorResult("IndexError"))
             [] OTHER -> pc' = "search" /\ UNCHANGED result
    /\ UNCHANGED <<tokenizer, theme, relevant_materials, max_context_size, chunks, i,
                   filtered, chunk_analyses_texts, plan>>
    /\ UNCHANGED outside_vars

\* Mutant of Search: an empty result does not end the call.
SearchKeepsGoing ==
    /\ pc = "search"
    /\ \/ /\ calls' = Append(calls, Call("search", 0, Raises, <<>>))
          /\ Return(ErrorResult("collaborator error"))
          /\ UNCHANGED relevant_materials
       \/ \E found \in {ms \in SearchResults : Len(ms) <= corpus} :
          /\ calls' = Append(calls, Call("search", 0, NoResponse, <<>>))
          /\ relevant_materials' = found
          /\ pc' = "max_context" /\ UNCHANGED result
    /\ UNCHANGED <<tokenizer, theme, max_context_size, chunks, i,
                   filtered, chunk_analyses_texts, plan>>
    /\ UNCHANGED outside_vars

\* relevant_materials = vector_store.search_vectors(...)
\* if not relevant_materials: return error
Search ==
    /\ pc = "search"
    /\ \/ /\ calls' = Append(calls, Call("search", 0, Raises, <<>>))
          /\ Return(ErrorResult("collaborator error"))
          /\ UNCHANGED relevant_materials
       \/ \E found \in {ms \in SearchResults : Len(ms) <= corpus} :
          /\ calls' = Append(calls, Call("search", 0, NoResponse, <<>>))
          /\ relevant_materials' = found
          /\ IF found = <<>> THEN Return(ErrorResult(MsgNoMaterials))
             ELSE pc' = "max_context" /\ UNCHANGED result
    /\ UNCHANGED <<tokenizer, theme, max_context_size, chunks, i,
                   filtered, chunk_analyses_texts, plan>>
    /\ UNCHANGED outside_vars

\* max_context_size = llm_client.get_max_context_size(); total_tokens;
\* the fast path when everything fits, else the chunks of the planner.
GetMaxContext ==
    /\ pc = "max_context"
    /\ \/ /\ calls' = Append(calls, Call("max_context", 0, Raises, <<>>))
          /\ Return(ErrorResult("collaborator error"))
          /\ UNCHANGED <<max_context_size, chunks, i>>
       \/ \E mcs \in 1..MaxCtx :
          LET total_tokens == SumTokens(tokenizer, relevant_materials)
              planned == _create_context_aware_chunks(tokenizer, relevant_materials, mcs)
          IN  /\ calls' = Append(calls, Call("max_context", 0, NoResponse, <<>>))
              /\ max_context_size' = mcs
              /\ IF Leq(total_tokens, Budget(mcs))
                 THEN pc' = "fast_filter" /\ UNCHANGED <<chunks, i, result>>
                 ELSE IF planned.raised
                 THEN Return(ErrorResult("ZeroDivisionError")) /\ UNCHANGED <<chunks, i>>
                 ELSE /\ chunks' = planned.chunks
                      /\ i' = 1
                      /\ pc' = "chunk_filter"
                      /\ UNCHANGED result
    /\ UNCHANGED <<tokenizer, theme, relevant_materials, filtered, chunk_analyses_texts, plan>>
    /\ UNCHANGED outside_vars

\* Mutant of FastFilter: the filter step narrows the retrieved list in place.
FastFilterNarrowsMaterials ==
    /\ pc = "fast_filter"
    /\ \E resp \in FilterResponses(relevant_materials) :
        LET parsed == ParseFiltered(get_analysis(resp))
        IN  /\ calls' = Append(calls, Call("filter", 0, resp, <<>>))
            /\ IF resp.raises
               THEN Return(ErrorResult("collaborator error"))
                    /\ UNCHANGED <<filtered, relevant_materials>>
               ELSE IF parsed.exc # "none"
               THEN Return(ErrorResult(parsed.exc)) /\ UNCHANGED <<filtered, relevant_materials>>
               ELSE IF parsed.materials = <<>>
               THEN Return(ErrorResult(MsgNoMaterialsAfterFiltering))
                    /\ UNCHANGED <<filtered, relevant_materials>>
               ELSE /\ pc' = "fast_analyze" /\ filtered' = parsed.materials
                    /\ relevant_materials' = SubSeq(relevant_materials, 1, 1)
                    /\ UNCHANGED result
    /\ UNCHANGED <<tokenizer, theme, max_context_size, chunks, i,
                   chunk_analyses_texts, plan>>
    /\ UNCHANGED outside_vars

\* Single-chunk path: the filter completion, json.loads of its answer, and
\* the return when nothing is left.
FastFilter ==
    /\ pc = "fast_filter"
    /\ \E resp \in FilterResponses(relevant_materials) :
        LET parsed == ParseFiltered(get_analysis(resp))
        IN  /\ calls' = Append(calls, Call("filter", 0, resp, <<>>))
            /\ IF resp.raises
               THEN Return(ErrorResult("collaborator error")) /\ UNCHANGED filtered
               ELSE IF parsed.exc # "none"
               THEN Return(ErrorResult(parsed.exc)) /\ UNCHANGED filtered
               ELSE IF parsed.materials = <<>>
               THEN Return(ErrorResult(MsgNoMaterialsAfterFiltering)) /\ UNCHANGED filtered
               ELSE pc' = "fast_analyze" /\ filtered' = parsed.materials /\ UNCHANGED result
    /\ UNCHANGED <<tokenizer, theme, relevant_materials, max_context_size, chunks, i,
                   chunk_analyses_texts, plan>>
    /\ UNCHANGED outside_vars

\* Mutant of FastAnalyze: the single analysis is handed to a synthesis call
\* instead of being returned.
FastAnalyzeThenSynthesizes ==
    /\ pc = "fast_analyze"
    /\ \E resp \in AnalysisResponses :
        /\ calls' = Append(calls, Call("analysis", 0, resp, <<>>))
        /\ IF resp.raises
           THEN Return(ErrorResult("collaborator error")) /\ UNCHANGED chunk_analyses_texts
           ELSE /\ chunk_analyses_texts' = <<Analysis("analysis", 0, resp)>>
                /\ pc' = "synthesis"
                /\ UNCHANGED result
    /\ UNCHANGED <<tokenizer, theme, relevant_materials, max_context_size, chunks, i,
                   filtered, plan>>
    /\ UNCHANGED outside_vars

\* Single-chunk path: the analysis completion, whose narrative is the report.
FastAnalyze ==
    /\ pc = "fast_analyze"
    /\ \E resp \in AnalysisResponses :
        /\ calls' = Append(calls, Call("analysis", 0, resp, <<>>))
        /\ IF resp.raises THEN Return(ErrorResult("collaborator error"))
           ELSE Return(OkResult(Analysis("analysis", 0, resp)))
    /\ UNCHANGED <<tokenizer, theme, relevant_materials, max_context_size, chunks, i,
                   filtered, chunk_analyses_texts, plan>>
    /\ UNCHANGED outside_vars

\* Mutant of NextChunk: the loop's end goes on to the synthesis even when
\* no intermediate analysis was collected.
NextChunkAlwaysSynthesizes(texts) ==
    IF i < Len(chunks) THEN pc' = "chunk_filter" /\ i' = i + 1 /\ UNCHANGED result
    ELSE pc' = "synthesis" /\ UNCHANGED <<i, result>>

\* The for loop moves to the next chunk, or ends: without intermediate
\* analyses the call returns an error, otherwise the synthesis follows.
NextChunk(texts) ==
    IF i < Len(chunks) THEN pc' = "chunk_filter" /\ i' = i + 1 /\ UNCHANGED result
    ELSE IF texts = <<>> THEN Return(ErrorResult(MsgNoAnalysis)) /\ UNCHANGED i
    ELSE pc' = "synthesis" /\ UNCHANGED <<i, result>>

\* Mutant of ChunkFilter: a chunk filtered to nothing is analysed all the same.
ChunkFilterNoContinue ==
    /\ pc = "chunk_filter"
    /\ \E resp \in FilterResponses(chunks[i]) :
        LET parsed == ParseFiltered(get_analysis(resp))
        IN  /\ calls' = Append(calls, Call("filter", i, resp, <<>>))
            /\ IF resp.raises
               THEN Return(ErrorResult("collaborator error")) /\ UNCHANGED <<i, filtered>>
               ELSE IF parsed.exc # "none"
               THEN Return(ErrorResult(parsed.exc)) /\ UNCHANGED <<i, filtered>>
               ELSE pc' = "chunk_analyze" /\ filtered' = parsed.materials /\ UNCHANGED <<i, result>>
    /\ UNCHANGED <<tokenizer, theme, relevant_materials, max_context_size, chunks,
                   chunk_analyses_texts, plan>>
    /\ UNCHANGED outside_vars

\* Mutant of ChunkFilter: a chunk filtered to nothing is filtered once more
\* before the loop moves on.
ChunkFilterRetries ==
    /\ pc = "chunk_filter"
    /\ \E resp \in FilterResponses(chunks[i]) :
        LET parsed == ParseFiltered(get_analysis(resp))
            last == calls[Len(calls)]
        IN  /\ calls' = Append(calls, Call("filter", i, resp, <<>>))
            /\ IF resp.raises
               THEN Return(ErrorResult("collaborator error")) /\ UNCHANGED <<i, filtered>>
               ELSE IF parsed.exc # "none"
               THEN Return(ErrorResult(parsed.exc)) /\ UNCHANGED <<i, filtered>>
               ELSE IF parsed.materials = <<>>
               THEN IF last.op = "filter" /\ last.chunk = i
                    THEN NextChunk(chunk_analyses_texts) /\ filtered' = <<>>
                    ELSE UNCHANGED <<pc, i, result>> /\ filtered' = <<>>
               ELSE pc' = "chunk_analyze" /\ filtered' = parsed.materials /\ UNCHANGED <<i, result>>
    /\ UNCHANGED <<tokenizer, theme, relevant_materials, max_context_size, chunks,
                   chunk_analyses_texts, plan>>
    /\ UNCHANGED outside_vars

\* Multi-chunk path, chunk i: the filter completion and json.loads of its
\* answer; an empty result is bound to the filtered list and skips the chunk
\* (continue).
ChunkFilter ==
    /\ pc = "chunk_filter"
    /\ \E resp \in FilterResponses(chunks[i]) :
        LET parsed == ParseFiltered(get_analysis(resp))
        IN  /\ calls' = Append(calls, Call("filter", i, resp, <<>>))
            /\ IF resp.raises
               THEN Return(ErrorResult("collaborator error")) /\ UNCHANGED <<i, filtered>>
               ELSE IF parsed.exc # "none"
               THEN Return(ErrorResult(parsed.exc)) /\ UNCHANGED <<i, filtered>>
               ELSE IF parsed.materials = <<>>
               THEN NextChunk(chunk_analyses_texts) /\ filtered' = <<>>
               ELSE pc' = "chunk_analyze" /\ filtered' = parsed.materials /\ UNCHANGED <<i, result>>
    /\ UNCHANGED <<tokenizer, theme, relevant_materials, max_context_size, chunks,
                   chunk_analyses_texts, plan>>
    /\ UNCHANGED outside_vars

\* Mutant of ChunkAnalyze: a raising analysis call only skips its chunk.
ChunkAnalyzeSkipsOnRaise ==
    /\ pc = "chunk_analyze"
    /\ \E resp \in AnalysisResponses :
        /\ calls' = Append(calls, Call("analysis", i, resp, <<>>))
        /\ IF resp.raises
           THEN NextChunk(chunk_analyses_texts) /\ UNCHANGED chunk_analyses_texts
           ELSE /\ chunk_analyses_texts' = Append(chunk_analyses_texts,
                                                   Analysis("analysis", i, resp))
                /\ NextChunk(chunk_analyses_texts')
    /\ UNCHANGED <<tokenizer, theme, relevant_materials, max_context_size, chunks,
                   filtered, plan>>
    /\ UNCHANGED outside_vars

\* Mutant of ChunkAnalyze: the analysis is put in front of the earlier ones.
ChunkAnalyzePrepends ==
    /\ pc = "chunk_analyze"
    /\ \E resp \in AnalysisResponses :
        /\ calls' = Append(calls, Call("analysis", i, resp, <<>>))
        /\ IF resp.raises
           THEN Return(ErrorResult("collaborator error")) /\ UNCHANGED <<i, chunk_analyses_texts>>
           ELSE /\ chunk_analyses_texts' = <<Analysis("analysis", i, resp)>>
                                           \o chunk_analyses_texts
                /\ NextChunk(chunk_analyses_texts')
    /\ UNCHANGED <<tokenizer, theme, relevant_materials, max_context_size, chunks,
                   filtered, plan>>
    /\ UNCHANGED outside_vars

\* Multi-chunk path, chunk i: the analysis completion, appended to the
\* intermediate analyses.
ChunkAnalyze ==
    /\ pc = "chunk_analyze"
    /\ \E resp \in AnalysisResponses :
        /\ calls' = Append(calls, Call("analysis", i, resp, <<>>))
        /\ IF resp.raises
           THEN Return(ErrorResult("collaborator error")) /\ UNCHANGED <<i, chunk_analyses_texts>>
           ELSE /\ chunk_analyses_texts' = Append(chunk_analyses_texts,
                                                   Analysis("analysis", i, resp))
                /\ NextChunk(chunk_analyses_texts')
    /\ UNCHANGED <<tokenizer, theme, relevant_materials, max_context_size, chunks,
                   filtered, plan>>
    /\ UNCHANGED outside_vars

\* The final prompt joins the intermediate analyses (TypeError when one of
\* them is None: no call is made); then the final completion.
Synthesize ==
    /\ pc = "synthesis"
    /\ IF ~Joinable(chunk_analyses_texts)
       THEN Return(ErrorResult("TypeError")) /\ UNCHANGED calls
       ELSE \E resp \in AnalysisResponses :
            /\ calls' = Append(calls, Call("synthesis", 0, resp, chunk_analyses_texts))
            /\ IF resp.raises THEN Return(ErrorResult("collaborator error"))
               ELSE Return(OkResult(Analysis("synthesis", 0, resp)))
    /\ UNCHANGED <<tokenizer, theme, relevant_materials, max_context_size, chunks, i,
                   filtered, chunk_analyses_texts, plan>>
    /\ UNCHANGED outside_vars

Next ==
    \/ Construct
    \/ ExtractTheme
    \/ Embed
    \/ Search
    \/ GetMaxContext
    \/ FastFilter
    \/ FastAnalyze
    \/ ChunkFilter
    \/ ChunkAnalyze
    \/ Synthesize

Spec == PipelineInit /\ [][Next]_vars

\* ------------------------------------------------ two interleaved requests
\* Two analyze_trend calls in one process, interleaved between collaborator
\* calls. The locals of the call that is not running are kept in parked;
\* the tokenizer is the process's. The vector store holds a single material.
ConcurrentInit ==
    /\ pc = "construct"
    /\ tokenizer \in Tokenizers
    /\ theme = NoTheme
    /\ relevant_materials = <<>>
    /\ max_context_size = 0
    /\ chunks = <<>>
    /\ i = 0
    /\ filtered = <<>>
    /\ chunk_analyses_texts = <<>>
    /\ calls = <<>>
    /\ result = NoResult
    /\ plan = NotCalled
    /\ corpus = 1
    /\ parked = FreshRequest
    /\ BotIdle

\* The locals of the running call.
Locals ==
    [pc |-> pc, theme |-> theme, relevant_materials |-> relevant_materials,
     max_context_size |-> max_context_size, chunks |-> chunks, i |-> i,
     filtered |-> filtered, chunk_analyses_texts |-> chunk_analyses_texts,
     calls |-> calls, result |-> result]

\* Mutant of Switch: the list of intermediate analyses is one list of the
\* module, not a local of each call.
SwitchSharesAnalyses ==
    /\ parked' = Locals
    /\ pc' = parked.pc
    /\ theme' = parked.theme
    /\ relevant_materials' = parked.relevant_materials
    /\ max_context_size' = parked.max_context_size
    /\ chunks' = parked.chunks
    /\ i' = parked.i
    /\ filtered' = parked.filtered
    /\ calls' = parked.calls
    /\ result' = parked.result
    /\ UNCHANGED <<chunk_analyses_texts, tokenizer, plan, corpus, bot_vars>>

\* The running call is suspended and the other call goes on: every local
\* name of analyze_trend belongs to the frame of its call.
Switch ==
    /\ parked' = Locals
    /\ pc' = parked.pc
    /\ theme' = parked.theme
    /\ relevant_materials' = parked.relevant_materials
    /\ max_context_size' = parked.max_context_size
    /\ chunks' = parked.chunks
    /\ i' = parked.i
    /\ filtered' = parked.filtered
    /\ chunk_analyses_texts' = parked.chunk_analyses_texts
    /\ calls' = parked.calls
    /\ result' = parked.result
    /\ UNCHANGED <<tokenizer, plan, corpus, bot_vars>>

ConcurrentNext ==
    \/ Construct
    \/ ExtractTheme
    \/ Embed
    \/ Search
    \/ GetMaxContext
    \/ FastFilter
    \/ FastAnalyze
    \/ ChunkFilter
    \/ ChunkAnalyze
    \/ Synthesize
    \/ Switch

ConcurrentSpec == ConcurrentInit /\ [][ConcurrentNext]_vars

\* ================================================================ the bot
\* bot.py and database.py: subscriptions in MongoDB, digest jobs in the
\* scheduler, dialogs in the FSM storage. The database and Telegram are
\* environments: a database operation may fail (db_ok), a send may raise.
\* The data of a dialog (category, analysis_date) are arguments of
\* analyze_trend only, whose outcome is drawn here; they are not kept.
\* last_op is written by every step: the outcome of the operations the
\* claims are about, NoOperation for the others.

\* ---------------------------------------------------------- database.py
\* get_user_subscription: the stored enabled/category, or the default when
\* there is no document or the lookup raises.
get_user_subscription(db, user_id, db_ok) ==
    IF db_ok /\ db[user_id].exists
    THEN [enabled |-> db[user_id].enabled, category |-> db[user_id].category]
    ELSE [enabled |-> FALSE, category |-> "None"]

\* update_user_subscription: upsert with enabled = True and the category.
update_user_subscription(db, user_id, category, db_ok) ==
    IF db_ok
    THEN [db |-> [db EXCEPT ![user_id] =
                    [exists |-> TRUE, enabled |-> TRUE, category |-> category]],
          returned |-> TRUE]
    ELSE [db |-> db, returned |-> FALSE]

\* toggle_subscription: negates what get_user_subscription reports (the
\* default when its find_one raises) and stores it with update_one (no
\* upsert: nothing is stored when the user has no document); returns the
\* negated value, or False when update_one raises.
toggle_subscription(db, user_id, find_ok, update_ok) ==
    LET subscription == get_user_subscription(db, user_id, find_ok)
        enabled == ~subscription.enabled
    IN  IF update_ok
        THEN [db |-> IF db[user_id].exists
                     THEN [db EXCEPT ![user_id].enabled = enabled] ELSE db,
              returned |-> enabled]
        ELSE [db |-> db, returned |-> FALSE]

\* create_subscription: inserts a disabled document without category unless
\* the user already has one.
create_subscription(db, user_id, db_ok) ==
    IF ~db_ok THEN [db |-> db, returned |-> FALSE]
    ELSE IF db[user_id].exists THEN [db |-> db, returned |-> TRUE]
    ELSE [db |-> [db EXCEPT ![user_id] =
                    [exists |-> TRUE, enabled |-> FALSE, category |-> "None"]],
          returned |-> TRUE]

\* ------------------------------------------------------------- scheduler
\* jobs[c] are the args of the jobs with id daily_digest_<c>. A stopped
\* scheduler keeps added jobs in a pending list; a running one replaces the
\* job with the same id (replace_existing=True).
get_job(js, job_id) == js[job_id] # <<>>

remove_job(js, job_id) == [js EXCEPT ![job_id] = Tail(@)]

add_job(js, running, job_id, args) ==
    IF running THEN [js EXCEPT ![job_id] = <<args>>]
    ELSE [js EXCEPT ![job_id] = Append(@, args)]

\* scheduler.start(): the pending jobs go to the job store, a later one
\* replacing an earlier one with the same id.
start(js) ==
    [job_id \in DOMAIN js |->
        IF js[job_id] = <<>> THEN <<>> ELSE <<js[job_id][Len(js[job_id])]>>]

\* --------------------------------------------------------------- dialogs
\* Dialog states of the FSM storage (StatesGroup:state).
AnalysisCategory == "AnalysisStates:waiting_for_category"
AnalysisQuery == "AnalysisStates:waiting_for_query"
WaitingForFile == "CSVUpload:waiting_for_file"
SubscriptionCategory == "SubscriptionStates:waiting_for_category"
DailyNewsDate == "DailyNewsStates:waiting_for_date"
DailyNewsCategory == "DailyNewsStates:waiting_for_category"

\* Messages a chat sends: the five commands set_commands registers, a
\* category button, a date, a document (a CSV file or another file) and the
\* service message of new chat members (the bot among them or not).
DateText == "2024-03-20"
Commands == {"/start", "/analyze", "/upload", "/subscribe", "/daily_news"}
CsvDocument == "document data.csv"
OtherDocument == "document data.txt"
BotJoined == "new_chat_members with the bot"
OthersJoined == "new_chat_members without the bot"
NewChatMembers == {BotJoined, OthersJoined}
Messages ==
    Commands \cup Categories \cup {DateText} \cup {CsvDocument, OtherDocument}
        \cup NewChatMembers

\* message.text is None for a document and for a service message.
HasText(message) == message \in Commands \cup Categories \cup {DateText}

\* message.text as a subscription category.
TextOf(message) == IF HasText(message) THEN message ELSE "None"

\* The handler that takes a message: the first one, in the order of the
\* @dp.message registrations of bot.py, whose filter (a command, the dialog
\* state of the chat whatever the message is, or new chat members) matches.
Dispatch(state, message) ==
    IF message = "/start" THEN "cmd_start"
    ELSE IF message = "/analyze" THEN "cmd_analyze"
    ELSE IF state = AnalysisCategory THEN "process_category"
    ELSE IF state = AnalysisQuery THEN "process_query"
    ELSE IF message = "/upload" THEN "cmd_upload"
    ELSE IF state = WaitingForFile THEN "process_csv"
    ELSE IF message = "/subscribe" THEN "cmd_subscribe"
    ELSE IF state = SubscriptionCategory THEN "process_subscription_category"
    ELSE IF message = "/daily_news" THEN "cmd_daily_news"
    ELSE IF state = DailyNewsDate THEN "process_daily_news_date"
    ELSE IF state = DailyNewsCategory THEN "process_daily_news_category"
    ELSE IF message \in NewChatMembers THEN "on_bot_added"
    ELSE "unhandled"

\* The outcomes of an analyze_trend call and of sending the report, as the
\* bot's handlers and send_daily_digest see them.
AnalysisOutcomes == {"raises", "error", "ok"}
Sends == {"raises", "sent"}

\* ---------------------------------------------------- suspended handlers
\* dp.start_polling handles every update in a task of its own: while a
\* handler awaits a Telegram call, other updates, those of the same chat
\* included, are handled. A handler that goes on to read or write the
\* dialog state, the database or the scheduler after such an await is two
\* steps: from the dispatch to that await, and from there to its end (the
\* MemoryStorage calls and the synchronous calls in between do not give the
\* event loop away). A job of the scheduler is a coroutine on the same
\* loop. tasks is the bag of the handlers and jobs suspended in an await,
\* each with the locals it goes on with: local, and for a digest job the
\* report messages it has sent and the ones it has left to send.
Task(handler, chat, local) ==
    [handler |-> handler, chat |-> chat, local |-> local, sent |-> 0, left |-> 0]

DigestTask(chat_id, enabled, sent, left) ==
    [handler |-> "send_daily_digest", chat |-> chat_id, local |-> enabled,
     sent |-> sent, left |-> left]

CanSuspend == BagCardinality(tasks) < MaxTasks

Suspend(task) == CanSuspend /\ tasks' = tasks (+) SetToBag({task})

Resume(task) == BagIn(task, tasks) /\ tasks' = tasks (-) SetToBag({task})

\* The task goes from one await to its next one.
Continue(task, next) ==
    BagIn(task, tasks) /\ tasks' = (tasks (-) SetToBag({task})) (+) SetToBag({next})

\* The analysis variables while no analyze_trend call is modelled.
AnalysisIdle ==
    /\ pc = "not_called"
    /\ tokenizer = "encoder"
    /\ theme = NoTheme
    /\ relevant_materials = <<>>
    /\ max_context_size = 0
    /\ chunks = <<>>
    /\ i = 0
    /\ filtered = <<>>
    /\ chunk_analyses_texts = <<>>
    /\ calls = <<>>
    /\ result = NoResult
    /\ plan = NotCalled
    /\ corpus = 0
    /\ parked = FreshRequest

BotInit == AnalysisIdle /\ BotIdle

\* ---------------------------------------------------------- the process
\* main.py: set_commands() and dp.start_polling(bot); the scheduler of
\* bot.py is imported with the module and is not started.
main_py_main ==
    /\ proc = "off"
    /\ \E set_commands_ok \in BOOLEAN :
        IF set_commands_ok
        THEN /\ proc' = "polling"
             /\ entry' = "main.py"
             /\ last_op' = [op |-> "main", entry |-> "main.py"]
        ELSE UNCHANGED <<proc, entry, last_op>>
    /\ UNCHANGED <<scheduler_running, jobs, subscriptions, fsm, tasks>>
    /\ UNCHANGED <<analysis_vars, corpus, parked>>

\* bot.py main: initialize_scheduler() starts the scheduler (an exception
\* of start ends the process), then set_commands() and start_polling.
bot_py_main ==
    /\ proc = "off"
    /\ \E start_ok \in BOOLEAN, set_commands_ok \in BOOLEAN :
        IF start_ok /\ set_commands_ok
        THEN /\ proc' = "polling"
             /\ entry' = "bot.py"
             /\ scheduler_running' = TRUE
             /\ jobs' = start(jobs)
             /\ last_op' = [op |-> "main", entry |-> "bot.py"]
        ELSE UNCHANGED <<proc, entry, scheduler_running, jobs, last_op>>
    /\ UNCHANGED <<subscriptions, fsm, tasks>>
    /\ UNCHANGED <<analysis_vars, corpus, parked>>

\* The process ends: the scheduler's jobs (memory job store), the dialog
\* states (MemoryStorage) and the handlers under way are gone, the database
\* and the vector store stay.
ProcessExit ==
    /\ proc = "polling"
    /\ proc' = "off"
    /\ entry' = "none"
    /\ scheduler_running' = FALSE
    /\ jobs' = [c \in Chats |-> <<>>]
    /\ fsm' = [c \in Chats |-> NoState]
    /\ tasks' = EmptyBag
    /\ last_op' = [op |-> "exit"]
    /\ UNCHANGED subscriptions
    /\ UNCHANGED <<analysis_vars, corpus, parked>>

\* --------------------------------------------------------- subscriptions
\* /subscribe: without categories the bot says so and returns; otherwise it
\* sends the keyboard of categories.
cmd_subscribe(chat, message) ==
    /\ proc = "polling"
    /\ Dispatch(fsm[chat], message) = "cmd_subscribe"
    /\ \E has_categories \in BOOLEAN :
        IF has_categories THEN Suspend(Task("cmd_subscribe", chat, TRUE))
        ELSE UNCHANGED tasks
    /\ last_op' = NoOperation
    /\ UNCHANGED <<proc, entry, scheduler_running, jobs, subscriptions, fsm>>
    /\ UNCHANGED <<analysis_vars, corpus, parked>>

\* cmd_subscribe after message.answer: the chat waits for a category (an
\* exception of the answer ends the handler).
cmd_subscribe_answered(task) ==
    /\ task.handler = "cmd_subscribe"
    /\ Resume(task)
    /\ \E answer_ok \in BOOLEAN :
        fsm' = IF answer_ok THEN [fsm EXCEPT ![task.chat] = SubscriptionCategory] ELSE fsm
    /\ last_op' = NoOperation
    /\ UNCHANGED <<proc, entry, scheduler_running, jobs, subscriptions>>
    /\ UNCHANGED <<analysis_vars, corpus, parked>>

\* A message arrives in a chat that waits for the category of a
\* subscription: the subscription is stored with enabled = True and
\* message.text as its category, then the bot answers (the confirmation, or
\* the error message when the update returned False).
process_subscription_category(chat, message) ==
    /\ proc = "polling"
    /\ Dispatch(fsm[chat], message) = "process_subscription_category"
    /\ \E db_ok \in BOOLEAN :
        LET updated == update_user_subscription(subscriptions, chat, TextOf(message), db_ok)
        IN  /\ subscriptions' = updated.db
            /\ Suspend(Task("process_subscription_category", chat, updated.returned))
    /\ last_op' = NoOperation
    /\ UNCHANGED <<proc, entry, scheduler_running, jobs, fsm>>
    /\ UNCHANGED <<analysis_vars, corpus, parked>>

\* Mutant of process_subscription_category_answered: the job is added
\* without removing or replacing the one the chat already has.
process_subscription_categoryAddsJob(task) ==
    /\ task.handler = "process_subscription_category"
    /\ Resume(task)
    /\ \E answer_ok \in BOOLEAN, add_ok \in BOOLEAN :
        LET chat == task.chat
            existing == get_job(jobs, chat)
            scheduled == task.local /\ answer_ok
        IN  /\ jobs' = IF scheduled /\ add_ok
                       THEN [jobs EXCEPT ![chat] = Append(@, chat)] ELSE jobs
            /\ last_op' = [op |-> "process_subscription_category", chat |-> chat,
                           entered_try |-> TRUE,
                           exit |-> IF ~task.local THEN "error result"
                                    ELSE IF answer_ok THEN "done" ELSE "exception",
                           replaced |-> scheduled /\ existing /\ add_ok]
    /\ fsm' = [fsm EXCEPT ![task.chat] = NoState]
    /\ UNCHANGED <<proc, entry, scheduler_running, subscriptions>>
    /\ UNCHANGED <<analysis_vars, corpus, parked>>

\* process_subscription_category after message.answer: when the update had
\* returned True and the confirmation was sent, the chat's digest job is
\* removed if there is one and added anew (an exception of the scheduler is
\* logged only); finally the dialog state is cleared.
process_subscription_category_answered(task) ==
    /\ task.handler = "process_subscription_category"
    /\ Resume(task)
    /\ \E answer_ok \in BOOLEAN, add_ok \in BOOLEAN :
        LET chat == task.chat
            existing == get_job(jobs, chat)
            removed == IF existing THEN remove_job(jobs, chat) ELSE jobs
            scheduled == task.local /\ answer_ok
        IN  /\ jobs' = IF ~scheduled THEN jobs
                       ELSE IF add_ok THEN add_job(removed, scheduler_running, chat, chat)
                       ELSE removed
            /\ last_op' = [op |-> "process_subscription_category", chat |-> chat,
                           entered_try |-> TRUE,
                           exit |-> IF ~task.local THEN "error result"
                                    ELSE IF answer_ok THEN "done" ELSE "exception",
                           replaced |-> scheduled /\ existing /\ add_ok]
    /\ fsm' = [fsm EXCEPT ![task.chat] = NoState]
    /\ UNCHANGED <<proc, entry, scheduler_running, subscriptions>>
    /\ UNCHANGED <<analysis_vars, corpus, parked>>

\* New members in a chat without dialog state: the bot asks Telegram who it
\* is (bot.get_me); when it is not among the new members the handler does
\* nothing more.
on_bot_added(chat, message) ==
    /\ proc = "polling"
    /\ Dispatch(fsm[chat], message) = "on_bot_added"
    /\ IF message = BotJoined THEN Suspend(Task("on_bot_added", chat, TRUE))
       ELSE UNCHANGED tasks
    /\ last_op' = NoOperation
    /\ UNCHANGED <<proc, entry, scheduler_running, jobs, subscriptions, fsm>>
    /\ UNCHANGED <<analysis_vars, corpus, parked>>

\* on_bot_added after bot.get_me, the bot being among the new members: the
\* welcome message is sent and then a disabled subscription is created for
\* the chat (an exception of create_subscription is logged only).
on_bot_added_got_me(task) ==
    /\ task.handler = "on_bot_added"
    /\ Resume(task)
    /\ \E get_me_ok \in BOOLEAN, welcome_ok \in BOOLEAN, db_ok \in BOOLEAN :
        LET created == create_subscription(subscriptions, task.chat, db_ok)
        IN  subscriptions' = IF get_me_ok /\ welcome_ok THEN created.db
                             ELSE subscriptions
    /\ last_op' = NoOperation
    /\ UNCHANGED <<proc, entry, scheduler_running, jobs, fsm>>
    /\ UNCHANGED <<analysis_vars, corpus, parked>>

\* Another client of the database calls toggle_subscription for a chat (the
\* bot imports the function and does not call it); find_one and update_one
\* may each raise.
SubscriptionToggled(chat) ==
    /\ \E find_ok \in BOOLEAN, update_ok \in BOOLEAN :
        subscriptions' = toggle_subscription(subscriptions, chat, find_ok, update_ok).db
    /\ last_op' = NoOperation
    /\ UNCHANGED <<proc, entry, scheduler_running, jobs, fsm, tasks>>
    /\ UNCHANGED <<analysis_vars, corpus, parked>>

\* ------------------------------------------------------------ the digest
\* Mutant of send_daily_digest: the enabled flag is not looked at.
send_daily_digestIgnoresEnabled(db, chat_id, db_ok, analysis) ==
    LET subscription == get_user_subscription(db, chat_id, db_ok)
    IN  [subscription |-> subscription,
         exit |-> IF subscription.category = "None" THEN "no category"
                  ELSE IF analysis = "raises" THEN "analysis raised"
                  ELSE IF analysis = "error" THEN "analysis error"
                  ELSE "sending"]

\* send_daily_digest up to its first await: the subscription it reads and
\* the way it goes on, a return that sends nothing or the loop that sends
\* the report in pieces of 4000 characters (message_parts has the headline
\* and the category by then, so the branch of an empty digest is not taken).
send_daily_digest(db, chat_id, db_ok, analysis) ==
    LET subscription == get_user_subscription(db, chat_id, db_ok)
    IN  [subscription |-> subscription,
         exit |-> IF ~subscription.enabled THEN "not subscribed"
                  ELSE IF subscription.category = "None" THEN "no category"
                  ELSE IF analysis = "raises" THEN "analysis raised"
                  ELSE IF analysis = "error" THEN "analysis error"
                  ELSE "sending"]

\* An instance of the job is under way (the scheduler's default
\* max_instances is 1: the job is not run again before it has ended).
DigestRunning(job_id) ==
    \E task \in BagToSet(tasks) : task.handler = "send_daily_digest" /\ task.chat = job_id

\* The running scheduler fires the digest job of a chat. The subscription is
\* read and the analysis is made (analyze_trend is a plain call, and only
\* for an enabled subscription with a category) before the first await of
\* the job, the send of the first of the message_chunks.
FireDigest(job_id) ==
    /\ proc = "polling"
    /\ scheduler_running
    /\ get_job(jobs, job_id)
    /\ ~DigestRunning(job_id)
    /\ \E db_ok \in BOOLEAN, analysis \in AnalysisOutcomes,
          message_chunks \in 1..MaxMessageChunks :
        LET chat_id == jobs[job_id][1]
            run == send_daily_digest(subscriptions, chat_id, db_ok, analysis)
        IN  /\ IF run.exit = "sending"
               THEN Suspend(DigestTask(chat_id, run.subscription.enabled, 0, message_chunks))
               ELSE UNCHANGED tasks
            /\ last_op' = [op |-> "send_daily_digest", chat |-> chat_id,
                           step |-> "read",
                           enabled |-> run.subscription.enabled,
                           category |-> run.subscription.category,
                           analysis |-> IF run.exit \in {"not subscribed", "no category"}
                                        THEN "not called" ELSE analysis,
                           sent |-> [exit |-> run.exit, reports |-> 0, notice |-> FALSE]]
    /\ UNCHANGED <<proc, entry, scheduler_running, jobs, subscriptions, fsm>>
    /\ UNCHANGED <<analysis_vars, corpus, parked>>

\* send_daily_digest after a bot.send_message of its loop: the next piece
\* is sent, or the job ends after the last one; an exception of the send
\* ends the loop in the outer except clause, which sends the failure notice
\* (an exception of that send is swallowed). reports counts the report
\* messages sent, notice is the except clause having run.
send_daily_digest_sent(task) ==
    /\ task.handler = "send_daily_digest"
    /\ \E send \in Sends :
        LET reports == task.sent + (IF send = "sent" THEN 1 ELSE 0)
            more == send = "sent" /\ task.left > 1
        IN  /\ IF more
               THEN Continue(task, DigestTask(task.chat, task.local, reports, task.left - 1))
               ELSE Resume(task)
            /\ last_op' = [op |-> "send_daily_digest", chat |-> task.chat,
                           step |-> "send",
                           enabled |-> task.local,
                           category |-> "set",
                           analysis |-> "ok",
                           sent |-> [exit |-> IF more THEN "sending"
                                              ELSE IF send = "sent" THEN "sent"
                                              ELSE "send failed",
                                     reports |-> reports,
                                     notice |-> send = "raises"]]
    /\ UNCHANGED <<proc, entry, scheduler_running, jobs, subscriptions, fsm>>
    /\ UNCHANGED <<analysis_vars, corpus, parked>>

\* The messages of the chats in the subscription runs: the command, a
\* category, a message without text and the two kinds of new members.
SubscriptionMessages == {"/subscribe", CsvDocument} \cup Categories \cup NewChatMembers

BotNext ==
    \/ main_py_main
    \/ bot_py_main
    \/ ProcessExit
    \/ \E chat \in Chats, message \in SubscriptionMessages : cmd_subscribe(chat, message)
    \/ \E task \in BagToSet(tasks) : cmd_subscribe_answered(task)
    \/ \E chat \in Chats, message \in SubscriptionMessages :
          process_subscription_category(chat, message)
    \/ \E task \in BagToSet(tasks) : process_subscription_category_answered(task)
    \/ \E chat \in Chats, message \in SubscriptionMessages : on_bot_added(chat, message)
    \/ \E task \in BagToSet(tasks) : on_bot_added_got_me(task)
    \/ \E chat \in Chats : SubscriptionToggled(chat)

BotSpec == BotInit /\ [][BotNext]_vars

\* The digest runs: the bot launched by bot.py, whose scheduler runs, a
\* chat subscribing (the command, a category, a message without text), the
\* other client of the database and the digest job of the chat. They are
\* followed in one chat: a job reads the subscription of its own chat only.
DigestMessages == {"/subscribe", CsvDocument} \cup Categories

DigestChats == {chat \in Chats : \A other \in Chats : chat <= other}

DigestNext ==
    \/ bot_py_main
    \/ ProcessExit
    \/ \E chat \in DigestChats, message \in DigestMessages : cmd_subscribe(chat, message)
    \/ \E task \in BagToSet(tasks) : cmd_subscribe_answered(task)
    \/ \E chat \in DigestChats, message \in DigestMessages :
          process_subscription_category(chat, message)
    \/ \E task \in BagToSet(tasks) : process_subscription_category_answered(task)
    \/ \E chat \in DigestChats : SubscriptionToggled(chat)
    \/ \E chat \in DigestChats : FireDigest(chat)
    \/ \E task \in BagToSet(tasks) : send_daily_digest_sent(task)

DigestSpec == BotInit /\ [][DigestNext]_vars

\* ------------------------------------------- database.py, called directly
\* The categories a stored subscription can have: the text of a message
\* process_subscription_category takes, None for a message without text.
StoredCategories ==
    {TextOf(message) : message \in
        {m \in Messages :
            Dispatch(SubscriptionCategory, m) = "process_subscription_category"}}

\* The documents of db.subscriptions.
Documents ==
    {NoDocument} \cup [exists : {TRUE}, enabled : BOOLEAN, category : StoredCategories]

\* The functions of database.py are called on any database, the bot being
\* off.
DatabaseInit ==
    /\ AnalysisIdle
    /\ proc = "off"
    /\ entry = "none"
    /\ scheduler_running = FALSE
    /\ jobs = [c \in Chats |-> <<>>]
    /\ subscriptions \in [Chats -> Documents]
    /\ fsm = [c \in Chats |-> NoState]
    /\ tasks = EmptyBag
    /\ last_op = NoOperation

\* A call of get_user_subscription.
GetUserSubscription(user_id) ==
    /\ \E db_ok \in BOOLEAN :
        last_op' = [op |-> "get_user_subscription", chat |-> user_id, db_ok |-> db_ok,
                    returned |-> get_user_subscription(subscriptions, user_id, db_ok)]
    /\ UNCHANGED <<proc, entry, scheduler_running, jobs, subscriptions, fsm, tasks>>
    /\ UNCHANGED <<analysis_vars, corpus, parked>>

\* A call of update_user_subscription.
UpdateUserSubscription(user_id) ==
    /\ \E category \in StoredCategories, db_ok \in BOOLEAN :
        LET updated == update_user_subscription(subscriptions, user_id, category, db_ok)
        IN  /\ subscriptions' = updated.db
            /\ last_op' = [op |-> "update_user_subscription", chat |-> user_id,
                           category |-> category, db_ok |-> db_ok,
                           returned |-> updated.returned]
    /\ UNCHANGED <<proc, entry, scheduler_running, jobs, fsm, tasks>>
    /\ UNCHANGED <<analysis_vars, corpus, parked>>

\* A call of toggle_subscription; find_one and update_one may each raise.
ToggleSubscription(user_id) ==
    /\ \E find_ok \in BOOLEAN, update_ok \in BOOLEAN :
        LET toggled == toggle_subscription(subscriptions, user_id, find_ok, update_ok)
        IN  /\ subscriptions' = toggled.db
            /\ last_op' = [op |-> "toggle_subscription", chat |-> user_id,
                           find_ok |-> find_ok, update_ok |-> update_ok,
                           before |-> get_user_subscription(subscriptions, user_id,
                                                            TRUE).enabled,
                           returned |-> toggled.returned]
    /\ UNCHANGED <<proc, entry, scheduler_running, jobs, fsm, tasks>>
    /\ UNCHANGED <<analysis_vars, corpus, parked>>

\* A call of create_subscription.
CreateSubscription(user_id) ==
    /\ \E db_ok \in BOOLEAN :
        LET created == create_subscription(subscriptions, user_id, db_ok)
        IN  /\ subscriptions' = created.db
            /\ last_op' = [op |-> "create_subscription", chat |-> user_id,
                           db_ok |-> db_ok, returned |-> created.returned]
    /\ UNCHANGED <<proc, entry, scheduler_running, jobs, fsm, tasks>>
    /\ UNCHANGED <<analysis_vars, corpus, parked>>

DatabaseNext ==
    \/ \E user_id \in Chats : GetUserSubscription(user_id)
    \/ \E user_id \in Chats : UpdateUserSubscription(user_id)
    \/ \E user_id \in Chats : ToggleSubscription(user_id)
    \/ \E user_id \in Chats : CreateSubscription(user_id)

DatabaseSpec == DatabaseInit /\ [][DatabaseNext]_vars

\* ------------------------------------------------------- dialog handlers
\* datetime.strptime(date_text, "%Y-%m-%d") accepts the text.
IsDate(date_text) == date_text = DateText

\* How a report handler (process_query, process_daily_news_category) ends:
\* the status message before the try block may fail; inside the try block
\* the analysis raises, returns an error result (early return) or returns a
\* report whose sending may fail.
HandlerExit(answer_ok, analysis, reply) ==
    IF ~answer_ok THEN "before try"
    ELSE IF analysis = "raises" THEN "exception"
    ELSE IF analysis = "error" THEN "error result"
    ELSE IF reply = "raises" THEN "exception"
    ELSE "done"

\* /start: the bot answers with the list of commands.
cmd_start(chat, message) ==
    /\ proc = "polling"
    /\ Dispatch(fsm[chat], message) = "cmd_start"
    /\ last_op' = NoOperation
    /\ UNCHANGED <<proc, entry, scheduler_running, jobs, subscriptions, fsm, tasks>>
    /\ UNCHANGED <<analysis_vars, corpus, parked>>

\* /analyze: without categories the bot says so and returns; otherwise it
\* sends the keyboard of categories.
cmd_analyze(chat, message) ==
    /\ proc = "polling"
    /\ Dispatch(fsm[chat], message) = "cmd_analyze"
    /\ \E has_categories \in BOOLEAN :
        IF has_categories THEN Suspend(Task("cmd_analyze", chat, TRUE))
        ELSE UNCHANGED tasks
    /\ last_op' = NoOperation
    /\ UNCHANGED <<proc, entry, scheduler_running, jobs, subscriptions, fsm>>
    /\ UNCHANGED <<analysis_vars, corpus, parked>>

\* cmd_analyze after message.answer: the chat waits for a category.
cmd_analyze_answered(task) ==
    /\ task.handler = "cmd_analyze"
    /\ Resume(task)
    /\ \E answer_ok \in BOOLEAN :
        fsm' = IF answer_ok THEN [fsm EXCEPT ![task.chat] = AnalysisCategory] ELSE fsm
    /\ last_op' = NoOperation
    /\ UNCHANGED <<proc, entry, scheduler_running, jobs, subscriptions>>
    /\ UNCHANGED <<analysis_vars, corpus, parked>>

\* A message arrives in a chat that waits for the category of an analysis:
\* the bot asks for the query.
process_category(chat, message) ==
    /\ proc = "polling"
    /\ Dispatch(fsm[chat], message) = "process_category"
    /\ Suspend(Task("process_category", chat, TRUE))
    /\ last_op' = NoOperation
    /\ UNCHANGED <<proc, entry, scheduler_running, jobs, subscriptions, fsm>>
    /\ UNCHANGED <<analysis_vars, corpus, parked>>

\* process_category after message.answer: the chat waits for the query.
process_category_answered(task) ==
    /\ task.handler = "process_category"
    /\ Resume(task)
    /\ \E answer_ok \in BOOLEAN :
        fsm' = IF answer_ok THEN [fsm EXCEPT ![task.chat] = AnalysisQuery] ELSE fsm
    /\ last_op' = NoOperation
    /\ UNCHANGED <<proc, entry, scheduler_running, jobs, subscriptions>>
    /\ UNCHANGED <<analysis_vars, corpus, parked>>

\* A message arrives in a chat that waits for the query: the bot sends the
\* status message.
process_query(chat, message) ==
    /\ proc = "polling"
    /\ Dispatch(fsm[chat], message) = "process_query"
    /\ Suspend(Task("process_query", chat, TRUE))
    /\ last_op' = NoOperation
    /\ UNCHANGED <<proc, entry, scheduler_running, jobs, subscriptions, fsm>>
    /\ UNCHANGED <<analysis_vars, corpus, parked>>

\* Mutant of process_query_answered: the early return on an error result
\* leaves the handler without clearing the dialog state.
process_queryReturnsEarly(task) ==
    /\ task.handler = "process_query"
    /\ Resume(task)
    /\ \E answer_ok \in BOOLEAN, analysis \in AnalysisOutcomes, reply \in Sends :
        LET exit == HandlerExit(answer_ok, analysis, reply)
        IN  /\ fsm' = IF answer_ok /\ exit # "error result"
                      THEN [fsm EXCEPT ![task.chat] = NoState] ELSE fsm
            /\ last_op' = [op |-> "process_query", chat |-> task.chat,
                           entered_try |-> answer_ok, exit |-> exit]
    /\ UNCHANGED <<proc, entry, scheduler_running, jobs, subscriptions>>
    /\ UNCHANGED <<analysis_vars, corpus, parked>>

\* process_query after the status message (an exception of it ends the
\* handler): the try block with the analysis and the report; finally the
\* dialog state is cleared. The awaits of the try block are followed by
\* nothing but the clearing, so they are taken in one step with it.
process_query_answered(task) ==
    /\ task.handler = "process_query"
    /\ Resume(task)
    /\ \E answer_ok \in BOOLEAN, analysis \in AnalysisOutcomes, reply \in Sends :
        LET exit == HandlerExit(answer_ok, analysis, reply)
        IN  /\ fsm' = IF answer_ok THEN [fsm EXCEPT ![task.chat] = NoState] ELSE fsm
            /\ last_op' = [op |-> "process_query", chat |-> task.chat,
                           entered_try |-> answer_ok, exit |-> exit]
    /\ UNCHANGED <<proc, entry, scheduler_running, jobs, subscriptions>>
    /\ UNCHANGED <<analysis_vars, corpus, parked>>

\* /upload: the bot describes the file it expects.
cmd_upload(chat, message) ==
    /\ proc = "polling"
    /\ Dispatch(fsm[chat], message) = "cmd_upload"
    /\ Suspend(Task("cmd_upload", chat, TRUE))
    /\ last_op' = NoOperation
    /\ UNCHANGED <<proc, entry, scheduler_running, jobs, subscriptions, fsm>>
    /\ UNCHANGED <<analysis_vars, corpus, parked>>

\* cmd_upload after message.answer: the chat waits for the file.
cmd_upload_answered(task) ==
    /\ task.handler = "cmd_upload"
    /\ Resume(task)
    /\ \E answer_ok \in BOOLEAN :
        fsm' = IF answer_ok THEN [fsm EXCEPT ![task.chat] = WaitingForFile] ELSE fsm
    /\ last_op' = NoOperation
    /\ UNCHANGED <<proc, entry, scheduler_running, jobs, subscriptions>>
    /\ UNCHANGED <<analysis_vars, corpus, parked>>

\* A message arrives in a chat that waits for the file: without a document
\* whose name ends in .csv the bot says so and the chat keeps waiting;
\* otherwise the bot asks Telegram for the file (bot.get_file).
process_csv(chat, message) ==
    /\ proc = "polling"
    /\ Dispatch(fsm[chat], message) = "process_csv"
    /\ IF message = CsvDocument THEN Suspend(Task("process_csv", chat, TRUE))
       ELSE UNCHANGED tasks
    /\ last_op' = NoOperation
    /\ UNCHANGED <<proc, entry, scheduler_running, jobs, subscriptions, fsm>>
    /\ UNCHANGED <<analysis_vars, corpus, parked>>

\* process_csv after bot.get_file, which is outside the try block (an
\* exception of it ends the handler with the chat still waiting): the file
\* is downloaded and read and its rows are added to the vector store, or
\* something of that fails; the bot then answers with the number of rows
\* or with the error (local is FALSE while the handler waits there).
process_csv_got_file(task) ==
    /\ task.handler = "process_csv" /\ task.local
    /\ \E get_file_ok \in BOOLEAN, rows \in 0..(MaxDocs - corpus) :
        /\ IF get_file_ok THEN Continue(task, Task("process_csv", task.chat, FALSE))
           ELSE Resume(task)
        /\ corpus' = IF get_file_ok THEN corpus + rows ELSE corpus
    /\ last_op' = NoOperation
    /\ UNCHANGED <<proc, entry, scheduler_running, jobs, subscriptions, fsm>>
    /\ UNCHANGED <<analysis_vars, parked>>

\* process_csv after message.answer: whether the answer was sent or not
\* (an exception of it is answered in the except clause), the finally
\* clause clears the dialog state.
process_csv_answered(task) ==
    /\ task.handler = "process_csv" /\ ~task.local
    /\ Resume(task)
    /\ fsm' = [fsm EXCEPT ![task.chat] = NoState]
    /\ last_op' = NoOperation
    /\ UNCHANGED <<proc, entry, scheduler_running, jobs, subscriptions>>
    /\ UNCHANGED <<analysis_vars, corpus, parked>>

\* test_embeddings.py, run as a script: it stores its one test material in
\* the vector store, once for each embedding type.
test_embeddings ==
    /\ \E stored \in 0..2 :
        /\ corpus + stored <= MaxDocs
        /\ corpus' = corpus + stored
    /\ last_op' = NoOperation
    /\ UNCHANGED <<proc, entry, scheduler_running, jobs, subscriptions, fsm, tasks>>
    /\ UNCHANGED <<analysis_vars, parked>>

\* test_search.py, run as a script: when the embedding dimension is not the
\* expected one it recreates the collection of the vector store, which is
\* empty afterwards (recreate_collection answers False when it fails).
recreate_collection ==
    /\ \E recreated \in BOOLEAN :
        corpus' = IF recreated THEN 0 ELSE corpus
    /\ last_op' = NoOperation
    /\ UNCHANGED <<proc, entry, scheduler_running, jobs, subscriptions, fsm, tasks>>
    /\ UNCHANGED <<analysis_vars, parked>>

\* /daily_news: the bot asks for a date.
cmd_daily_news(chat, message) ==
    /\ proc = "polling"
    /\ Dispatch(fsm[chat], message) = "cmd_daily_news"
    /\ Suspend(Task("cmd_daily_news", chat, TRUE))
    /\ last_op' = NoOperation
    /\ UNCHANGED <<proc, entry, scheduler_running, jobs, subscriptions, fsm>>
    /\ UNCHANGED <<analysis_vars, corpus, parked>>

\* cmd_daily_news after message.answer: the chat waits for the date.
cmd_daily_news_answered(task) ==
    /\ task.handler = "cmd_daily_news"
    /\ Resume(task)
    /\ \E answer_ok \in BOOLEAN :
        fsm' = IF answer_ok THEN [fsm EXCEPT ![task.chat] = DailyNewsDate] ELSE fsm
    /\ last_op' = NoOperation
    /\ UNCHANGED <<proc, entry, scheduler_running, jobs, subscriptions>>
    /\ UNCHANGED <<analysis_vars, corpus, parked>>

\* A message arrives in a chat that waits for the date: a message without
\* text raises (message.text.strip()), a text that is no date is answered
\* and keeps the chat waiting; for a date the bot answers with the keyboard
\* of categories, or that there are none.
process_daily_news_date(chat, message) ==
    /\ proc = "polling"
    /\ Dispatch(fsm[chat], message) = "process_daily_news_date"
    /\ \E has_categories \in BOOLEAN :
        IF HasText(message) /\ IsDate(message)
        THEN Suspend(Task("process_daily_news_date", chat, has_categories))
        ELSE UNCHANGED tasks
    /\ last_op' = NoOperation
    /\ UNCHANGED <<proc, entry, scheduler_running, jobs, subscriptions, fsm>>
    /\ UNCHANGED <<analysis_vars, corpus, parked>>

\* process_daily_news_date after message.answer: without categories the
\* dialog state is cleared, otherwise the chat waits for the category.
process_daily_news_date_answered(task) ==
    /\ task.handler = "process_daily_news_date"
    /\ Resume(task)
    /\ \E answer_ok \in BOOLEAN :
        fsm' = IF ~answer_ok THEN fsm
               ELSE IF task.local THEN [fsm EXCEPT ![task.chat] = DailyNewsCategory]
               ELSE [fsm EXCEPT ![task.chat] = NoState]
    /\ last_op' = NoOperation
    /\ UNCHANGED <<proc, entry, scheduler_running, jobs, subscriptions>>
    /\ UNCHANGED <<analysis_vars, corpus, parked>>

\* A message arrives in a chat that waits for the category of the daily
\* news: the bot sends the status message.
process_daily_news_category(chat, message) ==
    /\ proc = "polling"
    /\ Dispatch(fsm[chat], message) = "process_daily_news_category"
    /\ Suspend(Task("process_daily_news_category", chat, TRUE))
    /\ last_op' = NoOperation
    /\ UNCHANGED <<proc, entry, scheduler_running, jobs, subscriptions, fsm>>
    /\ UNCHANGED <<analysis_vars, corpus, parked>>

\* process_daily_news_category after the status message (an exception of it
\* ends the handler): the try block with the analysis and the report;
\* finally the dialog state is cleared (the closing message that follows
\* changes nothing).
process_daily_news_category_answered(task) ==
    /\ task.handler = "process_daily_news_category"
    /\ Resume(task)
    /\ \E answer_ok \in BOOLEAN, analysis \in AnalysisOutcomes, reply \in Sends :
        LET exit == HandlerExit(answer_ok, analysis, reply)
        IN  /\ fsm' = IF answer_ok THEN [fsm EXCEPT ![task.chat] = NoState] ELSE fsm
            /\ last_op' = [op |-> "process_daily_news_category", chat |-> task.chat,
                           entered_try |-> answer_ok, exit |-> exit]
    /\ UNCHANGED <<proc, entry, scheduler_running, jobs, subscriptions>>
    /\ UNCHANGED <<analysis_vars, corpus, parked>>

\* The dialogs are followed in one chat: the dialog state, the subscription
\* and the digest job are kept per chat, and no handler reads or writes
\* those of another chat.
DialogChats == {chat \in Chats : \A other \in Chats : chat <= other}

DialogNext ==
    \/ bot_py_main
    \/ ProcessExit
    \/ \E chat \in DialogChats, message \in Messages : cmd_start(chat, message)
    \/ \E chat \in DialogChats, message \in Messages : cmd_analyze(chat, message)
    \/ \E task \in BagToSet(tasks) : cmd_analyze_answered(task)
    \/ \E chat \in DialogChats, message \in Messages : process_category(chat, message)
    \/ \E task \in BagToSet(tasks) : process_category_answered(task)
    \/ \E chat \in DialogChats, message \in Messages : process_query(chat, message)
    \/ \E task \in BagToSet(tasks) : process_query_answered(task)
    \/ \E chat \in DialogChats, message \in Messages : cmd_upload(chat, message)
    \/ \E task \in BagToSet(tasks) : cmd_upload_answered(task)
    \/ \E chat \in DialogChats, message \in Messages : process_csv(chat, message)
    \/ \E task \in BagToSet(tasks) : process_csv_got_file(task)
    \/ \E task \in BagToSet(tasks) : process_csv_answered(task)
    \/ test_embeddings
    \/ recreate_collection
    \/ \E chat \in DialogChats, message \in Messages : cmd_subscribe(chat, message)
    \/ \E task \in BagToSet(tasks) : cmd_subscribe_answered(task)
    \/ \E chat \in DialogChats, message \in Messages :
          process_subscription_category(chat, message)
    \/ \E task \in BagToSet(tasks) : process_subscription_category_answered(task)
    \/ \E chat \in DialogChats, message \in Messages : cmd_daily_news(chat, message)
    \/ \E task \in BagToSet(tasks) : cmd_daily_news_answered(task)
    \/ \E chat \in DialogChats, message \in Messages :
          process_daily_news_date(chat, message)
    \/ \E task \in BagToSet(tasks) : process_daily_news_date_answered(task)
    \/ \E chat \in DialogChats, message \in Messages :
          process_daily_news_category(chat, message)
    \/ \E task \in BagToSet(tasks) : process_daily_news_category_answered(task)
    \/ \E chat \in DialogChats, message \in Messages : on_bot_added(chat, message)
    \/ \E task \in BagToSet(tasks) : on_bot_added_got_me(task)

DialogSpec == BotInit /\ [][DialogNext]_vars

\* ------------------------------------------------- planner specification
\* The planner called directly on a list of materials.
PlannerInit ==
    /\ pc = "planner_ready"
    /\ tokenizer \in Tokenizers
    /\ relevant_materials \in MaterialLists
    /\ max_context_size \in 1..MaxCtx
    /\ plan = NotCalled
    /\ theme = NoTheme
    /\ chunks = <<>>
    /\ i = 0
    /\ filtered = <<>>
    /\ chunk_analyses_texts = <<>>
    /\ calls = <<>>
    /\ result = NoResult
    /\ corpus = MaxDocs
    /\ parked = FreshRequest
    /\ BotIdle

CallPlanner ==
    /\ pc = "planner_ready"
    /\ pc' = "planner_returned"
    /\ plan' = _create_context_aware_chunks(tokenizer, relevant_materials, max_context_size)
    /\ UNCHANGED <<tokenizer, relevant_materials, max_context_size, pipeline_vars>>
    /\ UNCHANGED outside_vars

PlannerNext == CallPlanner

PlannerSpec == PlannerInit /\ [][PlannerNext]_vars

\* =================================================== properties: planner
\* The chunks of a plan, concatenated in order.
RECURSIVE Flatten(_)
Flatten(cs) == IF cs = <<>> THEN <<>> ELSE Head(cs) \o Flatten(Tail(cs))

PlannerReturned == pc = "planner_returned"
PlanChunks == plan.chunks
\* The cost of every list of texts under either way of counting (a table,
\* compared with itself so that it is computed once).
TextLists == UNION {[1..n -> Texts] : n \in 0..MaxDocs}

CostOfTexts ==
    LET cost == [tk \in Tokenizers, texts \in TextLists |->
                    SumTokens(tk, [k \in 1..Len(texts) |-> [url |-> k, text |-> texts[k]]])]
    IN  IF cost = cost THEN cost ELSE cost

ChunkCost(chunk) == CostOfTexts[tokenizer, [k \in 1..Len(chunk) |-> chunk[k].text]]
TotalCost == ChunkCost(relevant_materials)

\* C1 (as claimed): for every non-empty list of materials and every
\* max_context_size > 0 the planner returns chunks that, concatenated in
\* order, are exactly the input list, and none of them is empty.
C1_ChunkCoverage ==
    (PlannerReturned /\ relevant_materials # <<>>) =>
        /\ ~plan.raised
        /\ Flatten(PlanChunks) = relevant_materials
        /\ \A c \in 1..Len(PlanChunks) : PlanChunks[c] # <<>>

\* C1, the part the code keeps: whenever the planner returns at all, its
\* chunks are non-empty and concatenate to the input list.
C1_CoverageWhenReturned ==
    (PlannerReturned /\ ~plan.raised) =>
        /\ Flatten(PlanChunks) = relevant_materials
        /\ \A c \in 1..Len(PlanChunks) : PlanChunks[c] # <<>>

\* C2: every returned chunk of two or more materials costs at most
\* 0.8 x max_context_size; a chunk over the budget is a single material that
\* alone exceeds it; and every material that alone exceeds the budget is
\* returned, as a chunk of its own.
C2_BudgetRespect ==
    PlannerReturned =>
        /\ \A c \in 1..Len(PlanChunks) :
            /\ Len(PlanChunks[c]) >= 2 =>
                   Leq(ChunkCost(PlanChunks[c]), Budget(max_context_size))
            /\ Gt(ChunkCost(PlanChunks[c]), Budget(max_context_size)) =>
                   Len(PlanChunks[c]) = 1
        /\ \A k \in 1..Len(relevant_materials) :
            Gt(count_tokens(tokenizer, relevant_materials[k].text), Budget(max_context_size))
                => /\ ~plan.raised
                   /\ \E c \in 1..Len(PlanChunks) : PlanChunks[c] = <<relevant_materials[k]>>

\* C2 witness: a returned plan that holds a chunk of several materials and
\* a single material that alone exceeds the budget.
C2_Witness ==
    /\ PlannerReturned /\ ~plan.raised
    /\ \E c \in 1..Len(PlanChunks) : Len(PlanChunks[c]) >= 2
    /\ \E c \in 1..Len(PlanChunks) : Gt(ChunkCost(PlanChunks[c]), Budget(max_context_size))

\* C3 (as claimed): a chunk is closed only when the next material would
\* exceed the budget: for every two consecutive chunks, the cost of the
\* earlier one plus the cost of the first material of the later one is
\* strictly greater than 0.8 x max_context_size.
C3_GreedyPacking ==
    (PlannerReturned /\ ~plan.raised) =>
        \A c \in 1..(Len(PlanChunks) - 1) :
            Gt(Plus(ChunkCost(PlanChunks[c]),
                    count_tokens(tokenizer, PlanChunks[c + 1][1].text)),
               Budget(max_context_size))

\* C3 (amended): a chunk is closed when the next material would exceed the
\* budget or when it holds chunk_size materials: for every two consecutive
\* chunks, either the earlier one plus the first material of the later one
\* costs more than the budget, or the earlier one holds exactly
\* calculate_chunk_size(materials, max_context_size) materials; and no chunk
\* holds more than that.
C3_GreedyOrFull ==
    (PlannerReturned /\ ~plan.raised) =>
        LET chunk_size ==
                calculate_chunk_size(tokenizer, relevant_materials, max_context_size)
            budget == Budget(max_context_size)
        IN  /\ \A c \in 1..(Len(PlanChunks) - 1) :
                \/ Len(PlanChunks[c]) = chunk_size
                \/ Gt(Plus(ChunkCost(PlanChunks[c]),
                           count_tokens(tokenizer, PlanChunks[c + 1][1].text)),
                      budget)
            /\ \A c \in 1..Len(PlanChunks) : Len(PlanChunks[c]) <= chunk_size

\* C3 witness: a returned plan in which a chunk still short of chunk_size
\* was closed because the next material would have exceeded the budget.
C3_Witness ==
    /\ PlannerReturned /\ ~plan.raised
    /\ \E c \in 1..(Len(PlanChunks) - 1) :
        /\ Len(PlanChunks[c]) < plan.chunk_size
        /\ Gt(Plus(ChunkCost(PlanChunks[c]),
                   count_tokens(tokenizer, PlanChunks[c + 1][1].text)),
              Budget(max_context_size))

\* C4 (as claimed): for every non-empty list whose total cost is at most
\* 0.8 x max_context_size, whatever the number of materials and their costs
\* (zero included), the planner returns exactly one chunk with all of them.
C4_FastPathOneChunk ==
    (PlannerReturned /\ relevant_materials # <<>> /\ Leq(TotalCost, Budget(max_context_size))) =>
        /\ ~plan.raised
        /\ PlanChunks = <<relevant_materials>>

\* C5 (as claimed): the planner called on an empty list returns an empty
\* list of chunks and does not fail.
C5_EmptyListNoChunks ==
    (PlannerReturned /\ relevant_materials = <<>>) =>
        /\ ~plan.raised
        /\ PlanChunks = <<>>

\* ================================================== properties: pipeline
CallIndexes == 1..Len(calls)
IsCall(k, op) == calls[k].op = op

\* The filter completion answered, and what it answered parses to nothing:
\* no 'analysis' key, text that is not JSON, a JSON value that is no list, or
\* the empty JSON list.
FilterYieldsNothing(resp) ==
    /\ ~resp.raises
    /\ \/ ~resp.has_analysis
       \/ /\ resp.analysis.type = "str"
          /\ \/ resp.analysis.text \in {"empty", "prose", "json_object"}
             \/ resp.analysis.text = "json_list" /\ resp.analysis.items = <<>>

\* The filter completion answered a non-empty JSON list.
FilterKeepsSome(resp) ==
    /\ ~resp.raises /\ resp.has_analysis
    /\ resp.analysis.type = "str" /\ resp.analysis.text = "json_list"
    /\ resp.analysis.items # <<>>

SearchFoundNothing ==
    /\ relevant_materials = <<>>
    /\ \E k \in CallIndexes : IsCall(k, "search") /\ ~calls[k].response.raises

\* C6: when the search returns no material, analyze_trend returns status
\* 'error' with the no-relevant-materials message, and the only calls made
\* are the construction of the clients, theme extraction, embed and search:
\* no max-context query and no filter, analysis or synthesis completion.
C6_EmptyInputShortCircuit ==
    SearchFoundNothing =>
        /\ pc = "done"
        /\ result = ErrorResult(MsgNoMaterials)
        /\ \A k \in CallIndexes : calls[k].op \in {"construct", "theme", "embed", "search"}

\* C6 witness: the search was made and returned an empty list.
C6_Witness == SearchFoundNothing /\ Len(calls) = 4

\* C7: in the multi-chunk path, a chunk whose filter answer parses to
\* nothing gets no analysis call and adds nothing to the intermediate
\* analyses.
C7_FilterDropPropagation ==
    \A k \in CallIndexes :
        (IsCall(k, "filter") /\ calls[k].chunk >= 1 /\ FilterYieldsNothing(calls[k].response)) =>
            /\ \A j \in CallIndexes : ~(IsCall(j, "analysis") /\ calls[j].chunk = calls[k].chunk)
            /\ \A a \in 1..Len(chunk_analyses_texts) :
                   chunk_analyses_texts[a].chunk # calls[k].chunk

\* C7 witness: a chunk was filtered to nothing, and a later chunk was
\* analysed after it.
C7_Witness ==
    \E k, j \in CallIndexes :
        /\ k < j
        /\ IsCall(k, "filter") /\ calls[k].chunk >= 1 /\ FilterYieldsNothing(calls[k].response)
        /\ IsCall(j, "analysis") /\ calls[j].chunk > calls[k].chunk
        /\ chunk_analyses_texts # <<>>

\* A filter answer that is not a JSON list: text that is not JSON, JSON that
\* is no list, no 'analysis' key, or a value that is no string.
FilterAnswerMalformed(resp) ==
    /\ ~resp.raises
    /\ \/ ~resp.has_analysis
       \/ resp.analysis.type # "str"
       \/ resp.analysis.text \in {"empty", "prose", "json_object"}

\* C8 (as claimed): whatever malformed value the filter completion returns,
\* the filter step raises nothing and leaves an empty filtered chunk: the
\* fast path returns the nothing-left-after-filtering error, and the
\* multi-chunk path goes on to filter the next chunk.
C8_ParseOrEmpty ==
    (calls # <<>> /\ IsCall(Len(calls), "filter")
        /\ FilterAnswerMalformed(calls[Len(calls)].response)) =>
        LET c == calls[Len(calls)].chunk
        IN  /\ result.message \notin ExceptionMessages
            /\ c = 0 => result = ErrorResult(MsgNoMaterialsAfterFiltering)
            /\ (c >= 1 /\ c < Len(chunks)) => (pc = "chunk_filter" /\ i = c + 1)

\* Chunks of the multi-chunk path whose filter answer kept some material.
KeptChunks ==
    {calls[k].chunk : k \in {j \in CallIndexes :
        IsCall(j, "filter") /\ calls[j].chunk >= 1 /\ FilterKeepsSome(calls[j].response)}}

\* C9: the intermediate analyses given to the synthesis call are the
\* answers of the analysis calls of exactly the chunks whose filter result
\* was non-empty, one each, in ascending chunk index.
C9_SynthesisInputOrder ==
    \A k \in CallIndexes :
        IsCall(k, "synthesis") =>
            LET a == calls[k].analyses
            IN  /\ Len(a) = Cardinality(KeptChunks)
                /\ \A j \in 1..Len(a) :
                      /\ a[j].chunk \in KeptChunks
                      /\ \E n \in CallIndexes :
                            /\ IsCall(n, "analysis") /\ calls[n].chunk = a[j].chunk
                            /\ a[j] = Analysis("analysis", a[j].chunk, calls[n].response)
                /\ \A j1, j2 \in 1..Len(a) : j1 < j2 => a[j1].chunk < a[j2].chunk

\* C9 witness: three chunks, the second filtered to nothing, and the
\* synthesis called with the analyses of chunk 1 and chunk 3.
C9_Witness ==
    /\ Len(chunks) = 3
    /\ \E k \in CallIndexes :
        /\ IsCall(k, "filter") /\ calls[k].chunk = 2 /\ FilterYieldsNothing(calls[k].response)
    /\ \E k \in CallIndexes :
        /\ IsCall(k, "synthesis")
        /\ calls[k].analyses = <<Narrative("analysis", 1), Narrative("analysis", 3)>>

\* Every chunk was filtered and every filter answer parsed to nothing: the
\* one filter call of the fast path, or one per chunk of the multi-chunk path.
AllFilteredToNothing ==
    /\ relevant_materials # <<>>
    /\ \/ /\ chunks = <<>>
          /\ \E k \in CallIndexes :
                IsCall(k, "filter") /\ calls[k].chunk = 0 /\ FilterYieldsNothing(calls[k].response)
       \/ /\ chunks # <<>>
          /\ \A c \in 1..Len(chunks) : \E k \in CallIndexes :
                IsCall(k, "filter") /\ calls[k].chunk = c /\ FilterYieldsNothing(calls[k].response)

\* C10: when materials were retrieved but every filter result is empty, no
\* synthesis call is made and analyze_trend returns status 'error' with a
\* message other than the one for an empty retrieval, in the fast path and
\* in the multi-chunk path.
C10_NothingLeftAfterFiltering ==
    AllFilteredToNothing =>
        /\ pc = "done"
        /\ \A k \in CallIndexes : ~IsCall(k, "synthesis")
        /\ result.status = "error"
        /\ result.message # MsgNoMaterials
        /\ result.message \in {MsgNoMaterialsAfterFiltering, MsgNoAnalysis}

\* C10 witness: the multi-chunk path with at least two chunks, each of them
\* filtered to nothing.
C10_Witness == AllFilteredToNothing /\ Len(chunks) >= 2

\* C10, fast path: the single filter call parsed to nothing.
C10_FastPathWitness == AllFilteredToNothing /\ chunks = <<>>

\* A collaborator call raised.
SomeCallRaised == \E k \in CallIndexes : calls[k].response.raises

\* C11: no exception leaves analyze_trend: the call is either still running
\* with a next step to take, or it has returned a result whose status is
\* 'ok' or 'error'; once any collaborator call (client construction, theme,
\* embed, search, max-context, filter, analysis, synthesis) has raised, the
\* call has returned status 'error' with a message.
C11_NoExceptionEscapes ==
    /\ pc = "done" \/ ENABLED Next
    /\ pc = "done" => result.status \in {"ok", "error"}
    /\ result.status = "error" => result.message # "none"
    /\ SomeCallRaised =>
        /\ pc = "done"
        /\ result.status = "error"
        /\ result.message \in ExceptionMessages
        /\ calls[Len(calls)].response.raises

\* C11 witness: the last collaborator of the pipeline, the synthesis
\* completion, raised and the call returned an error.
C11_Witness ==
    /\ pc = "done" /\ result.status = "error"
    /\ \E k \in CallIndexes : IsCall(k, "synthesis") /\ calls[k].response.raises

\* Call k is a theme, embed or search call that failed: it raised, or it
\* returned malformed data (a completion result without the 'analysis' key
\* or with a value that is no string, an empty list of vectors).
EarlyStageFailed(k) ==
    /\ calls[k].op \in {"theme", "embed", "search"}
    /\ \/ calls[k].response.raises
       \/ IsCall(k, "theme") /\ ~calls[k].response.has_analysis
       \/ IsCall(k, "theme") /\ calls[k].response.analysis.type # "str"
       \/ IsCall(k, "embed") /\ calls[k].response = NoVectors

\* C12 (as claimed): a failed theme extraction, embedding or retrieval is
\* fatal: it is the last collaborator call of the request, and
\* analyze_trend has returned status 'error'.
C12_EarlyFailureIsFatal ==
    \A k \in CallIndexes :
        EarlyStageFailed(k) =>
            /\ k = Len(calls)
            /\ pc = "done"
            /\ result.status = "error"

\* C12, the part the code keeps: every early failure other than a theme
\* answer without the 'analysis' key is fatal.
C12_FatalUnlessKeyMissing ==
    \A k \in CallIndexes :
        (EarlyStageFailed(k) /\ ~(IsCall(k, "theme") /\ calls[k].response = WithoutAnalysis)) =>
            /\ k = Len(calls)
            /\ pc = "done"
            /\ result.status = "error"

\* The request is over, the search found materials, no collaborator call
\* raised, some filter answer kept material and no error was returned.
RequestSucceeded ==
    /\ pc = "done"
    /\ relevant_materials # <<>>
    /\ ~SomeCallRaised
    /\ \E k \in CallIndexes : IsCall(k, "filter") /\ FilterKeepsSome(calls[k].response)
    /\ result.status # "error"

\* C13 (as claimed): a request that succeeds returns status 'success'
\* together with the theme and a materials count equal to the number of
\* retrieved materials, the fields the chat front-end reads.
C13_SuccessfulReportShape ==
    RequestSucceeded =>
        /\ result.status = "success"
        /\ {"theme", "materials_count"} \subseteq DOMAIN result
        /\ result.theme = theme
        /\ result.materials_count = Len(relevant_materials)

CallsOf(op) == {k \in CallIndexes : IsCall(k, op)}

\* total_tokens <= max_context_size * 0.8 for every search result, tokenizer
\* and context size of the pipeline runs (a table, compared with itself so
\* that it is computed once).
FitsBudget ==
    LET fits == [tk \in Tokenizers, ms \in SearchResults, mcs \in 1..MaxCtx |->
                    Leq(SumTokens(tk, ms), Budget(mcs))]
    IN  IF fits = fits THEN fits ELSE fits

\* The max-context query answered and everything retrieved fits
\* 0.8 x max_context_size, and the filter answer kept some material.
FastPathKeptSome ==
    /\ \E k \in CallsOf("max_context") : ~calls[k].response.raises
    /\ \E k \in CallsOf("filter") : FilterKeepsSome(calls[k].response)
    /\ FitsBudget[tokenizer, relevant_materials, max_context_size]

\* C14: when the retrieved materials fit the budget and the filter keeps
\* some, analyze_trend makes exactly one filter call and one analysis call
\* and no synthesis call, and the report it returns is the narrative of that
\* analysis call.
C14_FastPathPassThrough ==
    FastPathKeptSome =>
        /\ Cardinality(CallsOf("filter")) = 1
        /\ CallsOf("synthesis") = {}
        /\ \/ pc = "fast_analyze" /\ CallsOf("analysis") = {}
           \/ /\ pc = "done"
              /\ Cardinality(CallsOf("analysis")) = 1
              /\ \A k \in CallsOf("analysis") :
                    /\ k = Len(calls)
                    /\ ~calls[k].response.raises =>
                          result = OkResult(Analysis("analysis", 0, calls[k].response))

\* C14 witness: three retrieved materials within the budget, filtered and
\* analysed in one call each, and the report returned.
C14_Witness ==
    /\ FastPathKeptSome
    /\ Len(relevant_materials) = 3
    /\ pc = "done" /\ result.status = "ok"

\* The fixed opening of every request, in the order of the calls.
Opening == <<"construct", "theme", "embed", "search", "max_context">>

\* The place of a call in the linear order of the pipeline: the opening,
\* then for each chunk (0 on the single-chunk path) its filter and its
\* analysis, then the synthesis.
StageRank(call) ==
    CASE call.op = "construct" -> 1
      [] call.op = "theme" -> 2
      [] call.op = "embed" -> 3
      [] call.op = "search" -> 4
      [] call.op = "max_context" -> 5
      [] call.op = "filter" -> 6 + 2 * call.chunk
      [] call.op = "analysis" -> 7 + 2 * call.chunk
      [] OTHER -> 8 + 2 * Len(relevant_materials)

\* C15: the calls of one request follow the linear pipeline: the opening
\* calls in their fixed order, then per chunk in ascending index one filter
\* call followed by at most one analysis call, then at most one synthesis
\* call; no call is repeated, and the request is either still running a
\* next step or has returned a result.
C15_LinearPipeline ==
    /\ \A k \in CallIndexes :
        /\ k <= Len(Opening) => calls[k].op = Opening[k]
        /\ k > Len(Opening) => calls[k].op \in {"filter", "analysis", "synthesis"}
        /\ k > 1 => StageRank(calls[k - 1]) < StageRank(calls[k])
        /\ IsCall(k, "analysis") =>
              IsCall(k - 1, "filter") /\ calls[k - 1].chunk = calls[k].chunk
        /\ IsCall(k, "synthesis") => k = Len(calls)
    /\ pc = "done" \/ ENABLED Next
    /\ pc = "done" => result # NoResult

\* C15 witness: a request over two chunks, each filtered and analysed, then
\* the synthesis, returned.
C15_Witness ==
    /\ pc = "done" /\ result.status = "ok"
    /\ Cardinality(CallsOf("filter")) >= 2
    /\ Cardinality(CallsOf("analysis")) >= 2
    /\ CallsOf("synthesis") # {}

\* The documents a filter or analysis call is about: the chunk with that
\* index, or everything retrieved on the single-chunk path (index 0).
ChunkDocs(c) == IF c = 0 THEN relevant_materials ELSE chunks[c]

Items(seq) == {seq[j] : j \in DOMAIN seq}

\* C16: the prompt of the filter call for a chunk contains the {text, url}
\* pairs of exactly the documents of that chunk, and the user query.
C16_FilterPromptCarriesChunk ==
    \A k \in CallsOf("filter") :
        /\ calls[k].prompt.query
        /\ calls[k].prompt.materials = UrlsOf(ChunkDocs(calls[k].chunk))

\* C17: every item that reaches an analysis prompt as filtered material is
\* a document of the chunk that was filtered, whatever the filter answered.
C17_FilteredSubsetOfChunk ==
    \A k \in CallsOf("analysis") :
        Items(calls[k].prompt.filtered) \subseteq Items(UrlsOf(ChunkDocs(calls[k].chunk)))

\* C18: the prompt of an analysis call carries the list parsed from the
\* filter answer of the same chunk and nothing else: the unfiltered
\* documents of the chunk are not put into it.
C18_AnalysisOnlyFiltered ==
    \A k \in CallsOf("analysis") :
        /\ calls[k].prompt.materials = <<>>
        /\ IsCall(k - 1, "filter") /\ calls[k - 1].chunk = calls[k].chunk
        /\ calls[k].prompt.filtered =
              ParseFiltered(get_analysis(calls[k - 1].response)).materials

\* C18 witness: a chunk of two documents of which the filter kept only the
\* first, and the analysis call of that chunk made.
C18_Witness ==
    \E k \in CallsOf("analysis") :
        /\ calls[k].chunk >= 1
        /\ Len(chunks[calls[k].chunk]) >= 2
        /\ calls[k].prompt.filtered = <<chunks[calls[k].chunk][1].url>>

\* C19: the extracted theme is the text given to embed and appears in no
\* filter prompt and in no analysis prompt; these carry the user query.
C19_ThemeOnlyEmbedded ==
    \A k \in CallIndexes :
        /\ IsCall(k, "embed") => calls[k].prompt.theme = theme
        /\ (IsCall(k, "filter") \/ IsCall(k, "analysis")) =>
              /\ calls[k].prompt.theme = "absent"
              /\ calls[k].prompt.query

\* C20: two runs of _create_context_aware_chunks on the same list of
\* materials and the same max_context_size return the same chunks, whichever
\* way count_tokens counts in each run (the encoder, or 1.3 x words when
\* tiktoken raises).
C20_PlannerDeterminism ==
    \A tk1 \in Tokenizers, tk2 \in Tokenizers :
        _create_context_aware_chunks(tk1, relevant_materials, max_context_size).chunks
            = _create_context_aware_chunks(tk2, relevant_materials, max_context_size).chunks

\* C21: after search_vectors has returned, no step of analyze_trend changes
\* the retrieved list or a material in it, and after the planner has
\* returned no step changes a chunk: the list is assigned by the search
\* step only and the chunks by the planning step only.
C21_NoMutation ==
    [][/\ pc # "search" => relevant_materials' = relevant_materials
       /\ pc # "max_context" => chunks' = chunks]_vars

\* C21 witness: a request over several chunks went through filtering,
\* analysis and synthesis and returned with the chunks still being the
\* retrieved list cut into pieces.
C21_Witness ==
    /\ pc = "done" /\ result.status = "ok"
    /\ Len(chunks) >= 2
    /\ Flatten(chunks) = relevant_materials
    /\ \E k \in CallsOf("filter") :
          FilterKeepsSome(calls[k].response)
          /\ ParseFiltered(get_analysis(calls[k].response)).materials
                # UrlsOf(ChunkDocs(calls[k].chunk))

\* The word-count estimate of materials with the given numbers of words: 1.3
\* for each whitespace-separated word, summed from the first material on.
RECURSIVE WordEstimateFrom(_, _)
WordEstimateFrom(words, total) ==
    IF words = <<>> THEN total
    ELSE WordEstimateFrom(Tail(words), Plus(total, Product(Head(words), WordWeight)))

\* Whether the word estimate is within 0.8 x max_context_size, for every
\* list of word counts and every context size (a table, compared with itself
\* so that it is computed once).
WordEstimateFits ==
    LET fits == [words \in UNION {[1..n -> 0..MaxWords] : n \in 0..MaxDocs}, mcs \in 1..MaxCtx |->
                    Leq(WordEstimateFrom(words, Zero), Budget(mcs))]
    IN  IF fits = fits THEN fits ELSE fits

WordCounts(ms) == [k \in 1..Len(ms) |-> ms[k].text.words]

MaxContextAnswered == \E k \in CallsOf("max_context") : ~calls[k].response.raises

\* C23: when the encoder fails, count_tokens answers 1.3 x the number of
\* words instead of raising and the request goes on with that estimate: the
\* path is chosen by the word estimate against 0.8 x max_context_size, the
\* planner cuts all the retrieved materials into chunks that respect the
\* budget in word estimates, the next call is the filter call, and the
\* request never ends with an error of the estimate.
C23_FallbackKeepsGoing ==
    (tokenizer = "fallback" /\ MaxContextAnswered) =>
        /\ result.message # "ZeroDivisionError"
        /\ IF WordEstimateFits[WordCounts(relevant_materials), max_context_size]
           THEN /\ chunks = <<>>
                /\ calls[Len(calls)].op = "max_context" => pc = "fast_filter"
           ELSE /\ chunks # <<>>
                /\ Flatten(chunks) = relevant_materials
                /\ \A c \in 1..Len(chunks) :
                      Len(chunks[c]) = 1
                          \/ WordEstimateFits[WordCounts(chunks[c]), max_context_size]
                /\ calls[Len(calls)].op = "max_context" => pc = "chunk_filter"

\* C23 witness: with the encoder failing, a request was planned into
\* several chunks, one of them with more than one material, and returned a
\* report.
C23_Witness ==
    /\ tokenizer = "fallback"
    /\ pc = "done" /\ result.status = "ok"
    /\ Len(chunks) >= 2
    /\ \E c \in 1..Len(chunks) : Len(chunks[c]) >= 2

\* The filter or analysis call k of a chunk of the multi-chunk path raised.
ChunkStageRaised(k) ==
    /\ IsCall(k, "filter") \/ IsCall(k, "analysis")
    /\ calls[k].chunk >= 1
    /\ calls[k].response.raises

\* C25: when the filter or the analysis call of chunk k raises, that call is
\* the last call of the request: no later chunk is filtered or analysed,
\* there is no synthesis call, and the request has returned status 'error'
\* with the exception's message and without any report of the analyses
\* collected before.
C25_AbortOnChunkFailure ==
    \A k \in CallIndexes :
        ChunkStageRaised(k) =>
            /\ k = Len(calls)
            /\ CallsOf("synthesis") = {}
            /\ pc = "done"
            /\ result = ErrorResult("collaborator error")
            /\ result.report = NoNarrative

\* C25 witness: the analysis call of the second chunk raised after the
\* analysis of the first chunk had been collected, with a third chunk left.
C25_Witness ==
    /\ \E k \in CallIndexes : ChunkStageRaised(k) /\ IsCall(k, "analysis") /\ calls[k].chunk = 2
    /\ chunk_analyses_texts # <<>>
    /\ Len(chunks) >= 3

\* The intermediate analyses a request has collected according to its own
\* log: one per answered analysis call of a chunk, in order.
RECURSIVE OwnAnalyses(_)
OwnAnalyses(log) ==
    IF log = <<>> THEN <<>>
    ELSE LET c == log[Len(log)]
             before == OwnAnalyses(SubSeq(log, 1, Len(log) - 1))
         IN  IF c.op = "analysis" /\ c.chunk >= 1 /\ ~c.response.raises
             THEN Append(before, Analysis("analysis", c.chunk, c.response))
             ELSE before

\* The result analyze_trend returns after the calls of a log, as it is
\* determined when the request runs alone: by the outcome of its last call
\* (after the last call of the chunk loop: by the join of its analyses).
OutcomeOf(log) ==
    LET c == log[Len(log)]
        parsed == ParseFiltered(get_analysis(c.response))
    IN  CASE c.response.raises -> ErrorResult("collaborator error")
          [] c.op = "theme" -> ErrorResult("AttributeError")
          [] c.op = "embed" -> ErrorResult("IndexError")
          [] c.op = "search" -> ErrorResult(MsgNoMaterials)
          [] c.op = "max_context" -> ErrorResult("ZeroDivisionError")
          [] c.op = "filter" /\ parsed.exc # "none" -> ErrorResult(parsed.exc)
          [] c.op = "filter" /\ c.chunk = 0 -> ErrorResult(MsgNoMaterialsAfterFiltering)
          [] c.op = "filter" /\ OwnAnalyses(log) = <<>> -> ErrorResult(MsgNoAnalysis)
          [] c.op = "filter" -> ErrorResult("TypeError")
          [] c.op = "analysis" /\ c.chunk = 0 -> OkResult(Analysis("analysis", 0, c.response))
          [] c.op = "analysis" -> ErrorResult("TypeError")
          [] OTHER -> OkResult(Analysis("synthesis", 0, c.response))

\* A request whose artifacts and result come from its own calls only.
SelfContained(req) ==
    /\ req.chunk_analyses_texts = OwnAnalyses(req.calls)
    /\ req.pc = "done" => req.result = OutcomeOf(req.calls)
    /\ \A k \in 1..Len(req.calls) :
          req.calls[k].op = "synthesis" =>
              req.calls[k].analyses = OwnAnalyses(SubSeq(req.calls, 1, k - 1))

\* C22: two analyze_trend requests interleaved between collaborator calls do
\* not touch each other: the intermediate analyses and the result of each
\* are the ones its own calls and their responses give when it runs alone.
C22_RequestIndependence == SelfContained(Locals) /\ SelfContained(parked)

\* C22 witness: one request returned a synthesized report while the other
\* one, started before that, is suspended in its chunk loop with an
\* analysis collected.
C22_Witness ==
    /\ pc = "done" /\ result = OkResult(Narrative("synthesis", 0))
    /\ parked.pc = "synthesis" /\ parked.chunk_analyses_texts # <<>>
    /\ \E k \in CallIndexes : IsCall(k, "synthesis") /\ Len(calls[k].analyses) = 1

\* ------------------------------------------------------ subscription claims
\* C24: toggle_subscription returns the new subscription state: when the
\* database answers, the value returned is the negation of the enabled value
\* get_user_subscription reported before the call and is the enabled value
\* it reports right after the call, for every user, one without a
\* subscription record included.
C24_ToggleReturnsStoredState ==
    (last_op.op = "toggle_subscription" /\ last_op.find_ok /\ last_op.update_ok) =>
        /\ last_op.returned = ~last_op.before
        /\ get_user_subscription(subscriptions, last_op.chat, TRUE).enabled
               = last_op.returned

\* C26: the scheduler holds at most one digest job per chat, under the id of
\* that chat and with the chat id as its argument, whatever confirmations
\* came before; a repeated confirmation replaces the job.
C26_OneDigestJobPerChat ==
    \A job_id \in Chats :
        /\ Len(jobs[job_id]) <= 1
        /\ jobs[job_id] # <<>> => jobs[job_id][1] = job_id

\* A chat that had a digest job confirmed a subscription again and has one
\* job.
C26_Witness ==
    /\ last_op.op = "process_subscription_category"
    /\ last_op.replaced
    /\ Len(jobs[last_op.chat]) = 1

\* C27: while the bot is polling, every subscription stored with enabled =
\* true has a digest job in the scheduler, after any sequence of
\* confirmations, toggle_subscription calls, create_subscription calls and
\* process restarts.
C27_EnabledHasJob ==
    proc = "polling" =>
        \A chat \in Chats :
            (subscriptions[chat].exists /\ subscriptions[chat].enabled)
                => get_job(jobs, chat)

\* C28: send_daily_digest sends report messages only to a chat whose stored
\* subscription is enabled and has a category and whose analysis returned a
\* non-error result; when the subscription is disabled or has no category,
\* or the analysis returned status error or raised, nothing at all is sent.
\* The subscription is the stored one at the step in which the job reads
\* it: the job goes on to its sends only from there, and every message, a
\* report or the failure notice, is sent by a job that read an enabled
\* subscription.
C28_DigestOnlyWhenSubscribed ==
    last_op.op = "send_daily_digest" =>
        LET stored == subscriptions[last_op.chat]
            subscribed == /\ stored.exists
                          /\ stored.enabled
                          /\ stored.category # "None"
                          /\ last_op.analysis = "ok"
        IN  /\ last_op.step = "read" =>
                  /\ last_op.sent.exit = "sending" => subscribed
                  /\ last_op.sent.reports = 0 /\ ~last_op.sent.notice
            /\ (last_op.sent.reports > 0 \/ last_op.sent.notice) =>
                  /\ last_op.step = "send"
                  /\ last_op.enabled /\ last_op.analysis = "ok"

\* A digest job sent its whole report in more than one message, the last
\* of them after another client had switched the subscription off.
C28_Witness ==
    /\ last_op.op = "send_daily_digest"
    /\ last_op.sent.exit = "sent"
    /\ last_op.sent.reports >= 2 /\ ~last_op.sent.notice
    /\ subscriptions[last_op.chat].exists /\ ~subscriptions[last_op.chat].enabled

\* C30: whichever entry point launched the bot, the scheduler is running
\* while messages are polled.
C30_SchedulerRunsWhilePolling ==
    proc = "polling" => scheduler_running

\* ------------------------------------------------------------ dialog claims
\* C29: once process_query, process_daily_news_category or
\* process_subscription_category has entered its try block, the chat's
\* dialog state is cleared when the handler leaves it, on every exit path
\* (report sent, error result with early return, exception): the chat has
\* no dialog state at the step in which the handler ends.
C29_DialogStateReleased ==
    (/\ last_op.op \in {"process_query", "process_daily_news_category",
                        "process_subscription_category"}
     /\ last_op.entered_try)
        => fsm[last_op.chat] = NoState

\* process_query left its try block by the early return of an error result
\* and the chat, which was waiting for a query, has no dialog state.
C29_Witness ==
    /\ last_op.op = "process_query"
    /\ last_op.entered_try
    /\ last_op.exit = "error result"
    /\ fsm[last_op.chat] = NoState

====
